---------------------------- MODULE Spec2Model ----------------------------
(***************************************************************************)
(* Model of the lemmy-stats-crawler crawl engine: start_crawl and          *)
(* background_task (src/src/lib.rs) and CrawlJob::crawl with               *)
(* fetch_instance_details (src/src/crawl.rs).                              *)
(*                                                                         *)
(* The orchestrator and every worker task are processes with a program     *)
(* counter.  A step of a worker is the code between two suspension points  *)
(* (queue pull, network round trip) or one critical section of the         *)
(* crawled_instances mutex; the body of a critical section holds no        *)
(* .await, so it is one atomic step.                                       *)
(***************************************************************************)
EXTENDS Integers, Sequences, FiniteSets, TLC

(***************************************************************************)
(* Strings.  TLA+ strings are atomic, so every string the model feeds to   *)
(* the regex or to the version parser is spelled out character by          *)
(* character here; the matchers below work on the characters.              *)
(***************************************************************************)
Chars(s) ==
    CASE s = "a.example"     -> <<"a", ".", "e", "x", "a", "m", "p", "l", "e">>
      [] s = "b.example"     -> <<"b", ".", "e", "x", "a", "m", "p", "l", "e">>
      [] s = "c.example"     -> <<"c", ".", "e", "x", "a", "m", "p", "l", "e">>
      [] s = "xn--d.example" -> <<"x", "n", "-", "-", "d", ".", "e", "x", "a", "m", "p", "l", "e">>
      [] s = "xn--mnchen-3ya.example" ->
             <<"x", "n", "-", "-", "m", "n", "c", "h", "e", "n", "-", "3", "y", "a",
               ".", "e", "x", "a", "m", "p", "l", "e">>
      [] s = "!!bad"         -> <<"!", "!", "b", "a", "d">>
      [] s = "0.15.2"        -> <<"0", ".", "1", "5", ".", "2">>
      [] s = "0.15.3"        -> <<"0", ".", "1", "5", ".", "3">>
      [] s = "0.16.3"        -> <<"0", ".", "1", "6", ".", "3">>
      [] s = "0.16.3\n"      -> <<"0", ".", "1", "6", ".", "3", "\n">>
      [] s = "0.15.3-rc.1"   -> <<"0", ".", "1", "5", ".", "3", "-", "r", "c", ".", "1">>
      [] s = "0.15.3-rc.10"  -> <<"0", ".", "1", "5", ".", "3", "-", "r", "c", ".", "1", "0">>
      [] s = "0.16.3-rc.2\r\n" -> <<"0", ".", "1", "6", ".", "3", "-", "r", "c", ".", "2", "\r", "\n">>
      [] s = "0.15.3+b2"     -> <<"0", ".", "1", "5", ".", "3", "+", "b", "2">>
      [] s = "0.15.3+b10"    -> <<"0", ".", "1", "5", ".", "3", "+", "b", "1", "0">>
      [] s = "0.16.3+b2\n"   -> <<"0", ".", "1", "6", ".", "3", "+", "b", "2", "\n">>
      [] s = "0.19"          -> <<"0", ".", "1", "9">>
      [] s = "1.0.0\n"       -> <<"1", ".", "0", ".", "0", "\n">>
      [] s = "unknown"       -> <<"u", "n", "k", "n", "o", "w", "n">>
      [] s = "0.16.3\r\n" ->
             <<"0", ".", "1", "6", ".", "3", "\r", "\n">>
      [] s = "1.2.3-01" ->
             <<"1", ".", "2", ".", "3", "-", "0", "1">>
      [] s = "1.2.3-RC.1" ->
             <<"1", ".", "2", ".", "3", "-", "R", "C", ".", "1">>
      [] s = "1.2.3+build" ->
             <<"1", ".", "2", ".", "3", "+", "b", "u", "i", "l", "d">>
      [] s = "1.2.3-rc.1+b5" ->
             <<"1", ".", "2", ".", "3", "-", "r", "c", ".", "1", "+", "b", "5">>
      [] s = "1.2.3+b-1" ->
             <<"1", ".", "2", ".", "3", "+", "b", "-", "1">>
      [] s = "18446744073709551615.0.0" ->
             <<"1", "8", "4", "4", "6", "7", "4", "4", "0", "7", "3", "7", "0", "9", "5", "5", "1", "6", "1", "5", ".", "0", ".", "0">>
      [] s = "18446744073709551616.0.0" ->
             <<"1", "8", "4", "4", "6", "7", "4", "4", "0", "7", "3", "7", "0", "9", "5", "5", "1", "6", "1", "6", ".", "0", ".", "0">>
      [] OTHER               -> <<>>

Alphabet == <<"a", "b", "c", "d", "e", "f", "g", "h", "i", "j", "k", "l", "m",
              "n", "o", "p", "q", "r", "s", "t", "u", "v", "w", "x", "y", "z">>

Lower == {Alphabet[i] : i \in 1..Len(Alphabet)}

Digit == {"0", "1", "2", "3", "4", "5", "6", "7", "8", "9"}

\* The pieces of cs between occurrences of sep (always at least one piece).
RECURSIVE SplitOn(_, _)
SplitOn(cs, sep) ==
    IF \A i \in 1..Len(cs) : cs[i] # sep
    THEN <<cs>>
    ELSE LET k == CHOOSE i \in 1..Len(cs) :
                      cs[i] = sep /\ \A j \in 1..(i - 1) : cs[j] # sep
         IN  <<SubSeq(cs, 1, k - 1)>> \o SplitOn(SubSeq(cs, k + 1, Len(cs)), sep)

\* [a-z0-9]+(-[a-z0-9]+)* : alphanumeric runs joined by single hyphens.
LabelMatches(l) ==
    /\ Len(l) >= 1
    /\ \A i \in 1..Len(l) : l[i] \in Lower \cup Digit \cup {"-"}
    /\ l[1] # "-"
    /\ l[Len(l)] # "-"
    /\ \A i \in 1..(Len(l) - 1) : ~(l[i] = "-" /\ l[i + 1] = "-")

\* [a-z]{2,}
TldMatches(l) ==
    /\ Len(l) >= 2
    /\ \A i \in 1..Len(l) : l[i] \in Lower

\* DOMAIN_REGEX.is_match : ^([a-z0-9]+(-[a-z0-9]+)*\.)+[a-z]{2,}$
DOMAIN_REGEX_is_match(s) ==
    LET parts == SplitOn(Chars(s), ".")
        n     == Len(parts)
    IN  /\ n >= 2
        /\ \A i \in 1..(n - 1) : LabelMatches(parts[i])
        /\ TldMatches(parts[n])

\* The domain names of the model, and those of them the regex matches.
Domains == {"a.example", "b.example", "c.example", "xn--mnchen-3ya.example",
            "xn--d.example", "!!bad"}

MatchingDomains == {d \in Domains : DOMAIN_REGEX_is_match(d)}

(***************************************************************************)
(* semver::Version                                                         *)
(***************************************************************************)
UpperAlphabet == <<"A", "B", "C", "D", "E", "F", "G", "H", "I", "J", "K", "L", "M",
                   "N", "O", "P", "Q", "R", "S", "T", "U", "V", "W", "X", "Y", "Z">>

Upper == {UpperAlphabet[i] : i \in 1..Len(UpperAlphabet)}

\* The characters of a pre-release or build identifier: [0-9A-Za-z-].
IdentChars == Digit \cup Upper \cup Lower \cup {"-"}

DigitValue(c) ==
    CASE c = "0" -> 0 [] c = "1" -> 1 [] c = "2" -> 2 [] c = "3" -> 3
      [] c = "4" -> 4 [] c = "5" -> 5 [] c = "6" -> 6 [] c = "7" -> 7
      [] c = "8" -> 8 [] c = "9" -> 9

DigitOf(v) == (CHOOSE c \in Digit : DigitValue(c) = v)

\* The byte of a character of a version string.
Ascii(c) ==
    IF c = "+" THEN 43
    ELSE IF c = "-" THEN 45
    ELSE IF c = "." THEN 46
    ELSE IF c \in Digit THEN 48 + DigitValue(c)
    ELSE IF c \in Upper THEN 64 + (CHOOSE k \in 1..Len(UpperAlphabet) : UpperAlphabet[k] = c)
    ELSE 96 + (CHOOSE k \in 1..Len(Alphabet) : Alphabet[k] = c)

\* Ord on two values: -1, 0 or 1.
Cmp(m, n) == IF m < n THEN 0 - 1 ELSE IF m > n THEN 1 ELSE 0

\* Ord::cmp on two strings: byte by byte, a proper prefix first.
RECURSIVE StrCmp(_, _)
StrCmp(x, y) ==
    IF Len(x) = 0 THEN (IF Len(y) = 0 THEN 0 ELSE 0 - 1)
    ELSE IF Len(y) = 0 THEN 1
    ELSE IF Ascii(x[1]) # Ascii(y[1]) THEN Cmp(Ascii(x[1]), Ascii(y[1]))
    ELSE StrCmp(Tail(x), Tail(y))

AllDigits(cs) == \A i \in 1..Len(cs) : cs[i] \in Digit

\* u64::MAX.  A u64 is kept as its decimal digits, TLC's integers being
\* narrower.
U64Max == <<"1", "8", "4", "4", "6", "7", "4", "4", "0", "7",
            "3", "7", "0", "9", "5", "5", "1", "6", "1", "5">>

\* Ord on two u64 (decimal digits, no leading zero).
NumCmp(x, y) == IF Len(x) # Len(y) THEN Cmp(Len(x), Len(y)) ELSE StrCmp(x, y)

\* x - 1 for x > 0.
RECURSIVE Borrow(_)
Borrow(ds) ==
    IF ds[Len(ds)] # "0"
    THEN SubSeq(ds, 1, Len(ds) - 1) \o <<DigitOf(DigitValue(ds[Len(ds)]) - 1)>>
    ELSE Borrow(SubSeq(ds, 1, Len(ds) - 1)) \o <<"9">>

Decrement(ds) ==
    LET r == Borrow(ds)
    IN  IF Len(r) > 1 /\ r[1] = "0" THEN Tail(r) ELSE r

\* How many characters of S cs starts with.
PrefixLen(cs, S) ==
    CHOOSE k \in 0..Len(cs) :
        /\ \A i \in 1..k : cs[i] \in S
        /\ k = Len(cs) \/ cs[k + 1] \notin S

\* numeric_identifier: the digits cs starts with, as a u64; no digit, a
\* leading zero and a value above u64::MAX are errors.
numeric_identifier(cs) ==
    LET n == PrefixLen(cs, Digit)
        v == SubSeq(cs, 1, n)
    IN  [ok    |-> /\ n >= 1
                   /\ (n > 1 => cs[1] # "0")
                   /\ NumCmp(v, U64Max) <= 0,
         value |-> v,
         rest  |-> SubSeq(cs, n + 1, Len(cs))]

\* dot: the next character is '.'.
dot(cs) ==
    [ok   |-> Len(cs) >= 1 /\ cs[1] = ".",
     rest |-> SubSeq(cs, 2, Len(cs))]

\* identifier: the dot-separated segments of [0-9A-Za-z-] cs starts with.  An
\* empty segment is an error, and so is, in a pre-release, a segment of
\* digits with a leading zero.  Nothing at all gives the empty identifier.
identifier(cs, pre) ==
    LET n    == PrefixLen(cs, IdentChars \cup {"."})
        id   == SubSeq(cs, 1, n)
        segs == SplitOn(id, ".")
    IN  [ok    |-> \/ n = 0
                   \/ \A i \in 1..Len(segs) :
                         /\ Len(segs[i]) >= 1
                         /\ (pre /\ AllDigits(segs[i]) /\ Len(segs[i]) > 1)
                                => segs[i][1] # "0",
         value |-> id,
         rest  |-> SubSeq(cs, n + 1, Len(cs))]

NoVersion == [ok |-> FALSE, major |-> <<"0">>, minor |-> <<"0">>,
              patch |-> <<"0">>, pre |-> <<>>, build |-> <<>>]

\* Version::from_str on the characters: MAJOR.MINOR.PATCH, then an optional
\* -PRERELEASE, then an optional +BUILD, and nothing after; anything else is
\* an error.
VersionParseChars(cs) ==
    LET major == numeric_identifier(cs)
        d1    == dot(major.rest)
        minor == numeric_identifier(d1.rest)
        d2    == dot(minor.rest)
        patch == numeric_identifier(d2.rest)
        dash  == Len(patch.rest) >= 1 /\ patch.rest[1] = "-"
        pre   == IF dash THEN identifier(Tail(patch.rest), TRUE)
                 ELSE [ok |-> TRUE, value |-> <<>>, rest |-> patch.rest]
        plus  == Len(pre.rest) >= 1 /\ pre.rest[1] = "+"
        build == IF plus THEN identifier(Tail(pre.rest), FALSE)
                 ELSE [ok |-> TRUE, value |-> <<>>, rest |-> pre.rest]
    IN  IF /\ major.ok /\ d1.ok /\ minor.ok /\ d2.ok /\ patch.ok
           /\ pre.ok /\ (dash => pre.value # <<>>)
           /\ build.ok /\ (plus => build.value # <<>>)
           /\ build.rest = <<>>
        THEN [ok |-> TRUE, major |-> major.value, minor |-> minor.value,
              patch |-> patch.value, pre |-> pre.value, build |-> build.value]
        ELSE NoVersion

Version_parse(s) == VersionParseChars(Chars(s))

\* The version strings the servers of the model report, and their parses.
VersionStrings == {"0.15.2", "0.15.3", "0.16.3", "0.15.3-rc.1", "0.15.3-rc.10",
                   "0.15.3+b2", "0.15.3+b10", "0.19", "unknown"}

ParsedVersions ==
    {[string |-> s, version |-> Version_parse(s)] : s \in VersionStrings}

Parsed(s) == (CHOOSE p \in ParsedVersions : p.string = s).version

\* The characters with the Unicode property White_Space; those that have no
\* escape in a string are written as their code point.
WhiteSpace ==
    {"\t", "\n", "U+000B", "\f", "\r", " ", "U+0085", "U+00A0", "U+1680",
     "U+2000", "U+2001", "U+2002", "U+2003", "U+2004", "U+2005", "U+2006",
     "U+2007", "U+2008", "U+2009", "U+200A", "U+2028", "U+2029", "U+202F",
     "U+205F", "U+3000"}

\* str::trim on the characters: leading and trailing whitespace removed.
RECURSIVE Trim(_)
Trim(cs) ==
    IF Len(cs) = 0 THEN cs
    ELSE IF cs[1] \in WhiteSpace THEN Trim(Tail(cs))
    ELSE IF cs[Len(cs)] \in WhiteSpace THEN Trim(SubSeq(cs, 1, Len(cs) - 1))
    ELSE cs

\* The digits of a segment without its leading zeros.
RECURSIVE trim_start_zeros(_)
trim_start_zeros(cs) ==
    IF Len(cs) >= 1 /\ cs[1] = "0" THEN trim_start_zeros(Tail(cs)) ELSE cs

\* One segment of a pre-release against one of another: two numbers by
\* length and then by digits, a number before a word, two words by bytes.
PrereleaseSegmentCmp(l, r) ==
    IF AllDigits(l) /\ AllDigits(r)
    THEN (IF Len(l) # Len(r) THEN Cmp(Len(l), Len(r)) ELSE StrCmp(l, r))
    ELSE IF AllDigits(l) THEN 0 - 1
    ELSE IF AllDigits(r) THEN 1
    ELSE StrCmp(l, r)

\* One segment of a build metadata against one of another: two numbers by
\* value, then by the number of leading zeros.
BuildSegmentCmp(l, r) ==
    IF AllDigits(l) /\ AllDigits(r)
    THEN LET lhval == trim_start_zeros(l)
             rhval == trim_start_zeros(r)
         IN  IF Len(lhval) # Len(rhval) THEN Cmp(Len(lhval), Len(rhval))
             ELSE IF StrCmp(lhval, rhval) # 0 THEN StrCmp(lhval, rhval)
             ELSE Cmp(Len(l), Len(r))
    ELSE IF AllDigits(l) THEN 0 - 1
    ELSE IF AllDigits(r) THEN 1
    ELSE StrCmp(l, r)

\* The segments of two identifiers compared in turn; the one that runs out
\* first is the smaller.
RECURSIVE SegmentsCmp(_, _, _)
SegmentsCmp(ls, rs, pre) ==
    IF Len(ls) = 0 THEN (IF Len(rs) = 0 THEN 0 ELSE 0 - 1)
    ELSE IF Len(rs) = 0 THEN 1
    ELSE LET c == IF pre THEN PrereleaseSegmentCmp(ls[1], rs[1])
                  ELSE BuildSegmentCmp(ls[1], rs[1])
         IN  IF c # 0 THEN c ELSE SegmentsCmp(Tail(ls), Tail(rs), pre)

\* Ord for Prerelease: none is above any, else segment by segment.
PrereleaseCmp(x, y) ==
    IF x = <<>> THEN (IF y = <<>> THEN 0 ELSE 1)
    ELSE IF y = <<>> THEN 0 - 1
    ELSE SegmentsCmp(SplitOn(x, "."), SplitOn(y, "."), TRUE)

\* Ord for BuildMetadata: segment by segment.
BuildMetadataCmp(x, y) == SegmentsCmp(SplitOn(x, "."), SplitOn(y, "."), FALSE)

\* Version's Ord, as derived: major, minor, patch, pre, build in turn.
VersionCmp(a, b) ==
    IF NumCmp(a.major, b.major) # 0 THEN NumCmp(a.major, b.major)
    ELSE IF NumCmp(a.minor, b.minor) # 0 THEN NumCmp(a.minor, b.minor)
    ELSE IF NumCmp(a.patch, b.patch) # 0 THEN NumCmp(a.patch, b.patch)
    ELSE IF PrereleaseCmp(a.pre, b.pre) # 0 THEN PrereleaseCmp(a.pre, b.pre)
    ELSE BuildMetadataCmp(a.build, b.build)

\* a < b
VersionLess(a, b) == VersionCmp(a, b) < 0

(***************************************************************************)
(* The URL of a request, https://{domain}/...: reqwest parses it, and a    *)
(* domain that is no host makes send() return the error without a request. *)
(***************************************************************************)
\* Url::parse, which reqwest calls on the string, is the WHATWG host parser
\* with UTS 46 processing and rests on the Unicode tables; it is not
\* reproduced here.  What is recorded is its verdict on the names of Domains:
\* it refuses "xn--d.example", whose first label starts with xn-- and is no
\* Punycode (the encoded part "d" ends in the middle of a number), and takes
\* the other five, "xn--mnchen-3ya.example" (the encoding of a label with u
\* umlaut) and "!!bad" among them.
NotUrlHosts == {"xn--d.example"}

(***************************************************************************)
(* node_info.rs: the usage counters of a nodeinfo document, each an i64.   *)
(***************************************************************************)
\* An i64 is kept as its two's complement in four 16-bit limbs, the least
\* significant first.
Limb == 65536

\* The i64 of an integer between -2^31 and 2^31 - 1.
I64Of(n) ==
    <<n % Limb, (n \div Limb) % Limb,
      IF n < 0 THEN Limb - 1 ELSE 0, IF n < 0 THEN Limb - 1 ELSE 0>>

\* i64::MAX
I64Max == <<Limb - 1, Limb - 1, Limb - 1, (Limb \div 2) - 1>>

I64Negative(x) == x[4] >= Limb \div 2

\* a.wrapping_add(b)
I64WrappingAdd(a, b) ==
    LET s1 == a[1] + b[1]
        s2 == a[2] + b[2] + (s1 \div Limb)
        s3 == a[3] + b[3] + (s2 \div Limb)
        s4 == a[4] + b[4] + (s3 \div Limb)
    IN  <<s1 % Limb, s2 % Limb, s3 % Limb, s4 % Limb>>

\* a + b leaves the range of i64: the operands have one sign and the wrapped
\* sum the other.
I64AddOverflows(a, b) ==
    /\ I64Negative(a) = I64Negative(b)
    /\ I64Negative(I64WrappingAdd(a, b)) # I64Negative(a)

\* A NodeInfoUsage with every counter n.
Usage(n) ==
    [users    |-> [total |-> I64Of(n), active_halfyear |-> I64Of(n),
                   active_month |-> I64Of(n)],
     posts    |-> I64Of(n),
     comments |-> I64Of(n)]

\* The additions of the closure of reduce, in the order they are evaluated.
UsageFields(u) ==
    <<u.users.total, u.users.active_halfyear, u.users.active_month, u.posts,
      u.comments>>

\* One of the five additions of a and b overflows.
UsageAddOverflows(a, b) ==
    \E i \in 1..5 : I64AddOverflows(UsageFields(a)[i], UsageFields(b)[i])

\* The closure of reduce, lib.rs lines 151-159, with wrapping additions.
UsageAdd(a, b) ==
    [users    |-> [total           |-> I64WrappingAdd(a.users.total, b.users.total),
                   active_halfyear |-> I64WrappingAdd(a.users.active_halfyear,
                                                      b.users.active_halfyear),
                   active_month    |-> I64WrappingAdd(a.users.active_month,
                                                      b.users.active_month)],
     posts    |-> I64WrappingAdd(a.posts, b.posts),
     comments |-> I64WrappingAdd(a.comments, b.comments)]

\* Iterator::reduce with that closure: None for no usage, else the first
\* with the others added in turn; overflow tells whether an addition on the
\* way left the range of i64.
NoCounts == [some |-> FALSE, usage |-> Usage(0), overflow |-> FALSE]

RECURSIVE ReduceUsage(_, _)
ReduceUsage(acc, us) ==
    IF Len(us) = 0 THEN acc
    ELSE ReduceUsage([some     |-> TRUE,
                      usage    |-> UsageAdd(acc.usage, us[1]),
                      overflow |-> acc.overflow \/ UsageAddOverflows(acc.usage, us[1])],
                     Tail(us))

Reduce(us) ==
    IF Len(us) = 0 THEN NoCounts
    ELSE ReduceUsage([some |-> TRUE, usage |-> us[1], overflow |-> FALSE], Tail(us))

\* The usage the servers of the model report, the lists of them that a crawl
\* can collect (at most one result for each name that is a host), and reduce
\* on each.
UsagesReported ==
    {Usage(5), Usage(7), [Usage(5) EXCEPT !.users.total = I64Max]}

UsageLists == UNION {[1..k -> UsagesReported] : k \in 0..Cardinality(Domains \ NotUrlHosts)}

ReducedUsages == {[usages |-> us, reduced |-> Reduce(us)] : us \in UsageLists}

Reduced(us) == (CHOOSE e \in ReducedUsages : e.usages = us).reduced

(***************************************************************************)
(* The network: what a server answers to the requests of one job.          *)
(***************************************************************************)
\* const LIMIT in fetch_communities
LIMIT == 50

\* How many workers and how large a max_distance the initial states try.
MaxJobs == 2

MaxDistance == 2

\* A healthy lemmy server at domain d reporting the given peer lists.
Server(d, linked, allowed, blocked) ==
    [node_info   |-> [status |-> "ok", software |-> "lemmy",
                      usage |-> Usage(IF d = "b.example" THEN 7 ELSE 5)],
     site_info   |-> [status |-> "ok", actor_domain |-> d, version |-> "0.16.3",
                      users_active_month |-> IF d = "b.example" THEN 7 ELSE 5,
                      federated_instances |-> [some |-> TRUE, linked |-> linked]],
     communities |-> [pages |-> <<3>>, endless |-> FALSE],
     federated   |-> [status |-> "ok", present |-> TRUE, linked |-> linked,
                      allowed |-> allowed, blocked |-> blocked],
     geo_ip      |-> "some"]

\* The ways one answer can deviate from a healthy one.
FaultKinds == {"node_err", "site_err", "node_undecodable", "site_undecodable",
               "wrong_software", "wrong_domain", "unparsable_version",
               "old_version", "prerelease", "minimum_version",
               "federated_err", "federated_none", "communities_err",
               "communities_paged", "communities_endless", "geo_err", "geo_none",
               "geo_no_addr", "later_prerelease", "build", "lesser_build",
               "usage_max", "site_without_peers"}

Faulty(r, kind) ==
    CASE kind = "node_err"           -> [r EXCEPT !.node_info.status = "err"]
      [] kind = "site_err"           -> [r EXCEPT !.site_info.status = "err"]
      [] kind = "node_undecodable"   -> [r EXCEPT !.node_info.status = "undecodable"]
      [] kind = "site_undecodable"   -> [r EXCEPT !.site_info.status = "undecodable"]
      [] kind = "wrong_software"     -> [r EXCEPT !.node_info.software = "mastodon"]
      [] kind = "wrong_domain"       -> [r EXCEPT !.site_info.actor_domain = "c.example"]
      [] kind = "unparsable_version" -> [r EXCEPT !.site_info.version = "unknown"]
      [] kind = "old_version"        -> [r EXCEPT !.site_info.version = "0.15.2"]
      [] kind = "federated_err"      -> [r EXCEPT !.federated.status = "err"]
      [] kind = "federated_none"     -> [r EXCEPT !.federated.present = FALSE]
      [] kind = "communities_err"    -> [r EXCEPT !.communities.pages = <<LIMIT, 0 - 1>>]
      [] kind = "communities_paged"  -> [r EXCEPT !.communities.pages = <<LIMIT, 2>>]
      [] kind = "communities_endless" -> [r EXCEPT !.communities =
                                            [pages |-> <<LIMIT>>, endless |-> TRUE]]
      [] kind = "geo_err"            -> [r EXCEPT !.geo_ip = "err"]
      [] kind = "geo_none"           -> [r EXCEPT !.geo_ip = "none"]
      [] kind = "geo_no_addr"        -> [r EXCEPT !.geo_ip = "no_addr"]
      [] kind = "prerelease"         -> [r EXCEPT !.site_info.version = "0.15.3-rc.1"]
      [] kind = "later_prerelease"   -> [r EXCEPT !.site_info.version = "0.15.3-rc.10"]
      [] kind = "minimum_version"    -> [r EXCEPT !.site_info.version = "0.15.3"]
      [] kind = "build"              -> [r EXCEPT !.site_info.version = "0.15.3+b2"]
      [] kind = "lesser_build"       -> [r EXCEPT !.site_info.version = "0.15.3+b10"]
      [] kind = "usage_max"          -> [r EXCEPT !.node_info.usage.users.total = I64Max]
      [] kind = "site_without_peers" ->
             [r EXCEPT !.site_info.federated_instances = [some |-> FALSE, linked |-> <<>>]]

\* No server behind the name: every request ends in a transport error.
Unreachable(d) ==
    Faulty(Faulty(Server(d, <<>>, <<>>, <<>>), "node_err"), "site_err")

(***************************************************************************)
(* The pure parts of a job: what the code computes from an answer.         *)
(***************************************************************************)
\* The answer to request number i of the community listing: the number of
\* communities on the page, or -1 for a failed request.  Past the pages the
\* server spells out it serves empty pages, or full ones for ever.
PageAt(listing, i) ==
    IF i <= Len(listing.pages) THEN listing.pages[i]
    ELSE IF listing.endless THEN LIMIT ELSE 0

\* fetch_communities never returns: no page is short and no request fails.
CommunitiesDiverge(listing) ==
    /\ listing.endless
    /\ \A i \in 1..Len(listing.pages) : listing.pages[i] >= LIMIT

\* fetch_communities: pages 1, 2, ... appended until a page is shorter than
\* LIMIT; a failed request is an Err for the whole call.  The list is kept as
\* its blocks, one [page, len] per page appended.
RECURSIVE fetch_communities_from(_, _, _)
fetch_communities_from(listing, page, communities) ==
    LET len == PageAt(listing, page)
    IN  IF len < 0 THEN [ok |-> FALSE, communities |-> <<>>]
        ELSE IF len < LIMIT
        THEN [ok |-> TRUE,
              communities |-> Append(communities, [page |-> page, len |-> len])]
        ELSE fetch_communities_from(listing, page + 1,
                 Append(communities, [page |-> page, len |-> len]))

fetch_communities(listing) == fetch_communities_from(listing, 1, <<>>)

NoPeers == [some |-> FALSE, linked |-> <<>>, allowed |-> <<>>, blocked |-> <<>>]

\* The peers taken from the response whether or not the request succeeded.
federated_instances_of_Unchecked(federated) ==
    [some |-> TRUE, linked |-> federated.linked,
     allowed |-> federated.allowed, blocked |-> federated.blocked]

\* fetch_federated_instances(...).ok() followed by .federated_instances:
\* the Option<FederatedInstances> the rest of crawl works with.
federated_instances_of(federated) ==
    IF federated.status = "ok" /\ federated.present
    THEN [some |-> TRUE, linked |-> federated.linked,
          allowed |-> federated.allowed, blocked |-> federated.blocked]
    ELSE NoPeers

NoSite ==
    [version |-> "", users_active_month |-> 0,
     federated_instances |-> [some |-> FALSE, linked |-> <<>>]]

\* The identity checks with a failed nodeinfo request let through.
IdentityError_NodeIgnored(domain, r) ==
    IF domain \in NotUrlHosts THEN "builder"
    ELSE IF r.site_info.status = "err" THEN "transport"
    ELSE IF r.site_info.status # "ok" THEN "decode"
    ELSE IF r.node_info.software # "lemmy" THEN "wrong software"
    ELSE IF r.site_info.actor_domain # domain THEN "wrong domain"
    ELSE ""

\* The checks of fetch_instance_details up to the identity check, in the
\* order of the code: "" when they pass, else the error.
IdentityError(domain, r) ==
    IF domain \in NotUrlHosts THEN "builder"
    ELSE IF r.node_info.status = "err" \/ r.site_info.status = "err" THEN "transport"
    ELSE IF r.node_info.status # "ok" \/ r.site_info.status # "ok" THEN "decode"
    ELSE IF r.node_info.software # "lemmy" THEN "wrong software"
    ELSE IF r.site_info.actor_domain # domain THEN "wrong domain"
    ELSE ""

\* The version gate left out.
VersionError_Off(version, minimum) == ""

\* The gate rejecting a version equal to the minimum as well.
VersionError_Inclusive(version, minimum) ==
    LET v == Parsed(version)
    IN  IF ~v.ok THEN "unparsable version"
        ELSE IF ~VersionLess(minimum, v) THEN "too old lemmy version"
        ELSE ""

\* The version gate of crawl: Version::parse(...)? and the comparison with
\* the minimum version.
VersionError(version, minimum) ==
    LET v == Parsed(version)
    IN  IF ~v.ok THEN "unparsable version"
        ELSE IF VersionLess(v, minimum) THEN "too old lemmy version"
        ELSE ""

Elements(s) == {s[i] : i \in 1..Len(s)}

\* The filters without the crawled_instances one.
ChildDomains_NoCrawledFilter(linked, excluded, crawled) ==
    SelectSeq(linked, LAMBDA d : d \notin excluded /\ d \in MatchingDomains)

\* The three filters on the linked list, in the order of the code.
ChildDomains(linked, excluded, crawled) ==
    SelectSeq(linked, LAMBDA d : /\ d \notin excluded
                                 /\ d \notin crawled
                                 /\ d \in MatchingDomains)

\* The distance test with the bound included.
MayExpand_Inclusive(current_distance, max) == current_distance <= max

\* The test of line 95 that lets a job send children.
MayExpand(current_distance, max) == current_distance < max

\* CrawlJob::new(domain, self.current_distance + 1, ...) for each child; the
\* distance is a u8.
ChildJobs(domains, current_distance) ==
    [i \in 1..Len(domains) |->
        [domain |-> domains[i], current_distance |-> (current_distance + 1) % 256]]

(***************************************************************************)
(* structs.rs: the response enums over the 0.18 and 0.19 schemas.          *)
(***************************************************************************)
\* How long the peer lists of a response body get.
MaxPeers == 2

\* enum GetFederatedInstancesResponse { V018(..), V019(..) } (GetSiteResponse
\* alike): the variants in the order declared.
Variants == <<"V018", "V019">>

\* An instance as a response lists it: its id and its domain.
Instances == [id : {7}, domain : {"a.example", "b.example"}]

PeerLists(n) == UNION {[1..k -> Instances] : k \in 0..n}

\* A response body: the schemas under which it deserializes, and the
\* federated_instances object read from it (None, or the three lists).
Payloads ==
    [decodes_as : SUBSET {"V018", "V019"}, some : {FALSE},
     linked : {<<>>}, allowed : {<<>>}, blocked : {<<>>}]
    \cup
    [decodes_as : SUBSET {"V018", "V019"}, some : {TRUE},
     linked : PeerLists(MaxPeers), allowed : PeerLists(1), blocked : PeerLists(1)]

Undecoded ==
    [status |-> "undecoded", variant |-> "", some |-> FALSE,
     linked |-> <<>>, allowed |-> <<>>, blocked |-> <<>>]

\* #[serde(untagged)]: the variants are tried in the order declared and the
\* first under which the body deserializes is returned; none is an error.
Deserialize(body) ==
    IF \A i \in 1..Len(Variants) : Variants[i] \notin body.decodes_as
    THEN [Undecoded EXCEPT !.status = "err"]
    ELSE LET k == CHOOSE i \in 1..Len(Variants) :
                      /\ Variants[i] \in body.decodes_as
                      /\ \A j \in 1..(i - 1) : Variants[j] \notin body.decodes_as
         IN  [status |-> "ok", variant |-> Variants[k], some |-> body.some,
              linked |-> body.linked, allowed |-> body.allowed,
              blocked |-> body.blocked]

\* convert_instance: the id cannot be carried over, the domain is.
convert_instance(instance) == [id |-> 0, domain |-> instance.domain]

\* The accessor keeping the allowed and blocked lists of the 0.18 schema.
federated_instances_KeepAll(response) ==
    [some |-> response.some, linked |-> response.linked,
     allowed |-> response.allowed, blocked |-> response.blocked]

\* GetFederatedInstancesResponse::federated_instances
federated_instances(response) ==
    IF response.variant = "V018"
    THEN IF response.some
         THEN [some    |-> TRUE,
               linked  |-> [i \in 1..Len(response.linked) |->
                               convert_instance(response.linked[i])],
               allowed |-> <<>>,
               blocked |-> <<>>]
         ELSE NoPeers
    ELSE [some |-> response.some, linked |-> response.linked,
          allowed |-> response.allowed, blocked |-> response.blocked]

NotCalled == [called |-> FALSE, value |-> NoPeers]

\* geo_ip(...).ok().flatten()
GeoField(geo) == IF geo = "some" THEN "some" ELSE "none"

\* min_lemmy_version: the VERSION file fetched, trimmed and parsed, then
\* version.minor -= 1 on a u64.  With minor = 0 the subtraction overflows: a
\* panic where overflow checks are compiled in, a wrap to u64::MAX where they
\* are not.
min_lemmy_version(file) ==
    LET v == VersionParseChars(Trim(Chars(file)))
    IN  IF file = "err" \/ ~v.ok THEN {[pc |-> "error", version |-> NoVersion]}
        ELSE IF v.minor = <<"0">>
        THEN {[pc |-> "panicked", version |-> NoVersion],
              [pc |-> "seeding", version |-> [v EXCEPT !.minor = U64Max]]}
        ELSE {[pc |-> "seeding", version |-> [v EXCEPT !.minor = Decrement(v.minor)]]}

\* What the request for the VERSION file may give ("err": the request fails),
\* and min_lemmy_version on each.
VersionFiles == {"0.16.3\n", "0.16.3-rc.2\r\n", "0.16.3+b2\n", "1.0.0\n", "unknown",
                 "err"}

MinVersionOutcomes ==
    UNION {{[file |-> f, pc |-> o.pc, version |-> o.version] :
               o \in min_lemmy_version(f)} : f \in VersionFiles}

(***************************************************************************)
(* State.                                                                  *)
(***************************************************************************)
VARIABLES
    start_instances,    \* start_crawl's arguments ...
    exclude_domains,
    jobs_count,
    max_distance,
    version_file,       \* what the published VERSION file answers
    geo_database,       \* whether GeoLite2-City.mmdb.gz is there to be read
    net,                \* per domain, the answers its server may give
    orch,               \* where start_crawl stands
    seed_idx,           \* the next start instance to send
    min_version,        \* CrawlParams.min_lemmy_version
    params_refs,        \* strong count of Arc<CrawlParams>
    results_closed,     \* every results_sender dropped
    job_senders,        \* strong UnboundedSender<CrawlJob> handles alive
    queue,              \* the job channel
    crawled_instances,  \* CrawlParams.crawled_instances
    result_chan,        \* the result channel
    results,            \* start_crawl's results vector
    crawl_results,      \* what start_crawl returns
    workers,            \* the background tasks
    requests,           \* per domain, how many jobs sent it their requests
    READER,             \* the static READER of geo_ip
    crawled_lock,       \* the task holding the crawled_instances mutex, or 0
    rcv_lock,           \* the task holding the job receiver mutex, or 0
    raw_payload,        \* a federated_instances response body to decode
    decoded_response,   \* what deserializing it gave
    accessor_result,    \* what federated_instances() returned on that
    listing,            \* a community listing fetch_communities is run on
    loop,               \* where the loop of fetch_communities stands
    community_field,    \* what fetch_instance_details made of its result
    hop                 \* a job's distance, the maximum, and its child's

inputs == <<start_instances, exclude_domains, jobs_count, max_distance,
            version_file, geo_database, net>>

vars == <<start_instances, exclude_domains, jobs_count, max_distance,
          version_file, geo_database, net, orch, seed_idx, min_version,
          params_refs, results_closed, job_senders, queue, crawled_instances,
          result_chan, results, crawl_results, workers, requests, READER,
          crawled_lock, rcv_lock,
          raw_payload, decoded_response, accessor_result, listing, loop,
          community_field, hop>>

\* The state of the crawl, and that of the response decoder.
crawl == <<start_instances, exclude_domains, jobs_count, max_distance,
           version_file, geo_database, net, orch, seed_idx, min_version,
           params_refs, results_closed, job_senders, queue, crawled_instances,
           result_chan, results, crawl_results, workers, requests, READER,
           crawled_lock, rcv_lock>>

\* The two mutexes.
locks == <<crawled_lock, rcv_lock>>

decoder == <<raw_payload, decoded_response, accessor_result>>

\* The state of fetch_communities run on its own.
lister == <<listing, loop, community_field>>

\* What the functions run on their own work on.
pure == <<decoder, lister, hop>>

\* What every step of the crawl but the geo lookup leaves alone.
aside == <<pure, READER>>

Workers == 1..jobs_count

\* No answer of a server at hand.
NoAnswer == [node_info |-> [status |-> "none"]]

\* A background task that holds no job.
Idle(pc) ==
    [pc |-> pc, domain |-> "", current_distance |-> 0, answer |-> NoAnswer,
     page |-> 0, site_info |-> NoSite, communities |-> <<>>,
     federated_instances |-> NoPeers]

\* Dropping one Arc<CrawlParams>; the last drop drops CrawlParams and with it
\* the only results_sender.
ReleaseParams ==
    /\ params_refs' = params_refs - 1
    /\ results_closed' = (params_refs = 1)

(***************************************************************************)
(* start_crawl                                                             *)
(***************************************************************************)
\* start_crawl spawning the background tasks before it asks for the version.
StartCrawl_SpawnFirst ==
    /\ orch = "start"
    /\ \E out \in {o \in MinVersionOutcomes : o.file = version_file} :
          /\ orch' = out.pc
          /\ min_version' = out.version
          /\ workers' = [w \in Workers |-> Idle("idle")]
          /\ IF out.pc = "seeding"
             THEN /\ params_refs' = 1
                  /\ UNCHANGED <<results_closed, job_senders>>
             ELSE /\ results_closed' = TRUE
                  /\ job_senders' = 0
                  /\ UNCHANGED params_refs
    /\ UNCHANGED <<inputs, aside, locks, seed_idx, queue, crawled_instances,
                   result_chan, results, crawl_results, requests>>

\* Lines 47-63: the channels exist; min_lemmy_version().await? either returns
\* the error to the caller or CrawlParams is built and the tasks are spawned.
StartCrawl ==
    /\ orch = "start"
    /\ \E out \in {o \in MinVersionOutcomes : o.file = version_file} :
          /\ orch' = out.pc
          /\ min_version' = out.version
          /\ IF out.pc = "seeding"
             THEN /\ params_refs' = 1
                  /\ workers' = [w \in Workers |-> Idle("idle")]
                  /\ UNCHANGED <<results_closed, job_senders>>
             ELSE /\ results_closed' = TRUE
                  /\ job_senders' = 0
                  /\ UNCHANGED <<params_refs, workers>>
    /\ UNCHANGED <<inputs, aside, locks, seed_idx, queue, crawled_instances, result_chan,
                   results, crawl_results, requests>>

\* Lines 65-68: one start instance becomes a job at distance 0.
SeedJob ==
    /\ orch = "seeding"
    /\ seed_idx <= Len(start_instances)
    /\ queue' = Append(queue, [domain |-> start_instances[seed_idx],
                               current_distance |-> 0])
    /\ params_refs' = params_refs + 1
    /\ seed_idx' = seed_idx + 1
    /\ UNCHANGED <<inputs, aside, locks, orch, min_version, results_closed, job_senders,
                   crawled_instances, result_chan, results, crawl_results,
                   workers, requests>>

\* start_crawl going on to receive results with its CrawlParams kept.
DropParams_Keep ==
    /\ orch = "seeding"
    /\ seed_idx > Len(start_instances)
    /\ orch' = "draining"
    /\ UNCHANGED <<inputs, aside, locks, seed_idx, min_version, params_refs,
                   results_closed, job_senders, queue, crawled_instances,
                   result_chan, results, crawl_results, workers, requests>>

\* Lines 70-72: the sleep is over, drop(params).
DropParams ==
    /\ orch = "seeding"
    /\ seed_idx > Len(start_instances)
    /\ orch' = "draining"
    /\ ReleaseParams
    /\ UNCHANGED <<inputs, aside, locks, seed_idx, min_version, job_senders, queue,
                   crawled_instances, result_chan, results, crawl_results,
                   workers, requests>>

\* Lines 74-77: results_receiver.recv() yields a result.
RecvResult ==
    /\ orch = "draining"
    /\ result_chan # <<>>
    /\ results' = Append(results, Head(result_chan))
    /\ result_chan' = Tail(result_chan)
    /\ UNCHANGED <<inputs, aside, locks, orch, seed_idx, min_version, params_refs,
                   results_closed, job_senders, queue, crawled_instances,
                   crawl_results, workers, requests>>

\* lib.rs lines 147-159: None when the site info has no federated_instances,
\* else reduce over the usage of the results that the instance links or that
\* are the instance itself, in the order of the results.
federated_counts(instance, rs) ==
    LET fi     == instance.site_info.federated_instances
        picked == SelectSeq(rs, LAMBDA c : \/ c.domain \in Elements(fi.linked)
                                           \/ c.domain = instance.domain)
    IN  IF ~fi.some THEN NoCounts
        ELSE Reduced([k \in 1..Len(picked) |-> picked[k].node_info.usage])

\* calculate_federated_site_aggregates, lib.rs lines 130-170: one
\* CrawlResult2 per CrawlResult, in order, with the domain, the site info and
\* the summed usage.  The sums are made with `+` on i64: where one leaves the
\* range, a build with overflow checks panics and one without wraps.
calculate_federated_site_aggregates(rs) ==
    LET counts == [i \in 1..Len(rs) |-> federated_counts(rs[i], rs)]
        ret    == [i \in 1..Len(rs) |->
                      [domain           |-> rs[i].domain,
                       site_info        |-> rs[i].site_info,
                       federated_counts |-> [some  |-> counts[i].some,
                                             usage |-> counts[i].usage]]]
    IN  IF \E i \in 1..Len(rs) : counts[i].overflow
        THEN {[state |-> "panicked", value |-> <<>>],
              [state |-> "returned", value |-> ret]}
        ELSE {[state |-> "returned", value |-> ret]}

\* sort_unstable_by_key(users_active_month) and reverse(): any arrangement of
\* rs with the keys descending (equal keys in any order).
SortedDescending(rs) ==
    LET n     == Len(rs)
        perms == {f \in [1..n -> 1..n] : \A i, j \in 1..n : i # j => f[i] # f[j]}
    IN  {[i \in 1..n |-> rs[f[i]]] : f \in
            {g \in perms : \A i \in 1..(n - 1) :
                rs[g[i]].site_info.users_active_month >=
                rs[g[i + 1]].site_info.users_active_month}}

\* start_crawl returning as soon as the result channel is empty, whether or
\* not a results_sender is left.
Return_Early ==
    /\ orch = "draining"
    /\ result_chan = <<>>
    /\ \E out \in calculate_federated_site_aggregates(results) :
          IF out.state = "panicked"
          THEN /\ orch' = "aggregates_panicked"
               /\ UNCHANGED crawl_results
          ELSE /\ orch' = "returned"
               /\ crawl_results' \in SortedDescending(out.value)
    /\ job_senders' = job_senders - 1
    /\ UNCHANGED <<inputs, aside, locks, seed_idx, min_version, params_refs,
                   results_closed, queue, crawled_instances, result_chan,
                   results, workers, requests>>

\* Lines 75-84: recv() yields None (channel empty, every sender dropped); the
\* results are aggregated, sorted and returned, or the aggregation panics;
\* either way start_crawl's locals are dropped, crawl_jobs_sender among them.
Return ==
    /\ orch = "draining"
    /\ result_chan = <<>>
    /\ results_closed
    /\ \E out \in calculate_federated_site_aggregates(results) :
          IF out.state = "panicked"
          THEN /\ orch' = "aggregates_panicked"
               /\ UNCHANGED crawl_results
          ELSE /\ orch' = "returned"
               /\ crawl_results' \in SortedDescending(out.value)
    /\ job_senders' = job_senders - 1
    /\ UNCHANGED <<inputs, aside, locks, seed_idx, min_version, params_refs, results_closed,
                   queue, crawled_instances, result_chan, results, workers,
                   requests>>

(***************************************************************************)
(* background_task and CrawlJob::crawl                                     *)
(***************************************************************************)
\* How far the page counter of a listing that never ends is told apart.
PageCycle == 2

\* crawl returns and the job's Arc<CrawlParams> is kept alive.
FinishJob_Leak(w) ==
    /\ workers' = [workers EXCEPT ![w] = Idle("idle")]
    /\ UNCHANGED <<params_refs, results_closed>>
    /\ job_senders' = job_senders - 1

\* crawl returns (Ok or Err alike): self, and with it one Arc<CrawlParams>,
\* and the upgraded job sender are dropped; the task loops back to recv.
FinishJob(w) ==
    /\ workers' = [workers EXCEPT ![w] = Idle("idle")]
    /\ ReleaseParams
    /\ job_senders' = job_senders - 1

\* The task panics: its job, if it holds one, is dropped in the unwinding.
Panic(w) ==
    /\ workers' = [workers EXCEPT ![w] = Idle("panicked")]
    /\ ReleaseParams

\* lib.rs line 94: rcv.lock().await gives the receiver to a task that is at
\* the top of its loop.
LockReceiver(w) ==
    /\ workers[w].pc = "idle"
    /\ rcv_lock = 0
    /\ rcv_lock' = w
    /\ UNCHANGED <<inputs, aside, crawled_lock, orch, seed_idx, min_version,
                   params_refs, results_closed, job_senders, queue,
                   crawled_instances, result_chan, results, crawl_results,
                   workers, requests>>

\* lib.rs lines 95-103: the task holding the receiver gets a job from recv()
\* and lets the receiver go; the weak sender is upgraded (unwrap: a panic
\* when no strong sender is left).
Recv(w) ==
    /\ workers[w].pc = "idle"
    /\ rcv_lock = w
    /\ rcv_lock' = 0
    /\ queue # <<>>
    /\ queue' = Tail(queue)
    /\ IF job_senders = 0
       THEN /\ Panic(w)
            /\ UNCHANGED job_senders
       ELSE /\ workers' = [workers EXCEPT ![w] =
                   [Idle("claim") EXCEPT !.domain = Head(queue).domain,
                        !.current_distance = Head(queue).current_distance]]
            /\ job_senders' = job_senders + 1
            /\ UNCHANGED <<params_refs, results_closed>>
    /\ UNCHANGED <<inputs, aside, crawled_lock, orch, seed_idx, min_version, crawled_instances,
                   result_chan, results, crawl_results, requests>>

\* The task returning as soon as it finds the queue empty.
WorkerExit_OnEmpty(w) ==
    /\ workers[w].pc = "idle"
    /\ rcv_lock = w
    /\ rcv_lock' = 0
    /\ queue = <<>>
    /\ workers' = [workers EXCEPT ![w] = Idle("exited")]
    /\ UNCHANGED <<inputs, aside, crawled_lock, orch, seed_idx, min_version,
                   params_refs, results_closed, job_senders, queue,
                   crawled_instances, result_chan, results, crawl_results,
                   requests>>

\* lib.rs lines 96 and 108-110: recv() yields None (queue empty and every
\* strong sender dropped); the task returns.
WorkerExit(w) ==
    /\ workers[w].pc = "idle"
    /\ rcv_lock = w
    /\ rcv_lock' = 0
    /\ queue = <<>>
    /\ job_senders = 0
    /\ workers' = [workers EXCEPT ![w] = Idle("exited")]
    /\ UNCHANGED <<inputs, aside, crawled_lock, orch, seed_idx, min_version, params_refs,
                   results_closed, job_senders, queue, crawled_instances,
                   result_chan, results, crawl_results, requests>>

\* crawl.rs lines 78 and 96: crawled_instances.lock().await gives the mutex
\* to a job that is about to claim its domain or to send its children.
LockCrawled(w) ==
    /\ workers[w].pc \in {"claim", "expand"}
    /\ crawled_lock = 0
    /\ crawled_lock' = w
    /\ UNCHANGED <<inputs, aside, rcv_lock, orch, seed_idx, min_version,
                   params_refs, results_closed, job_senders, queue,
                   crawled_instances, result_chan, results, crawl_results,
                   workers, requests>>

\* Claim keeping the mutex over the requests that follow.
Claim_KeepLock(w) ==
    /\ workers[w].pc = "claim"
    /\ crawled_lock = w
    /\ IF workers[w].domain \in crawled_instances
       THEN /\ FinishJob(w)
            /\ crawled_lock' = 0
            /\ UNCHANGED crawled_instances
       ELSE /\ crawled_instances' = crawled_instances \cup {workers[w].domain}
            /\ workers' = [workers EXCEPT ![w].pc = "fetch"]
            /\ UNCHANGED <<crawled_lock, params_refs, results_closed, job_senders>>
    /\ UNCHANGED <<inputs, aside, rcv_lock, orch, seed_idx, min_version, queue,
                   result_chan, results, crawl_results, requests>>

\* Claim without the insert: the set is tested and left as it is.
Claim_NoInsert(w) ==
    /\ workers[w].pc = "claim"
    /\ crawled_lock = w
    /\ crawled_lock' = 0
    /\ IF workers[w].domain \in crawled_instances
       THEN FinishJob(w)
       ELSE /\ workers' = [workers EXCEPT ![w].pc = "fetch"]
            /\ UNCHANGED <<params_refs, results_closed, job_senders>>
    /\ UNCHANGED <<inputs, aside, rcv_lock, orch, seed_idx, min_version, queue, result_chan,
                   results, crawl_results, requests, crawled_instances>>

\* Claim without the contains test: every job inserts and goes on.
Claim_Unchecked(w) ==
    /\ workers[w].pc = "claim"
    /\ crawled_lock = w
    /\ crawled_lock' = 0
    /\ crawled_instances' = crawled_instances \cup {workers[w].domain}
    /\ workers' = [workers EXCEPT ![w].pc = "fetch"]
    /\ UNCHANGED <<inputs, aside, rcv_lock, orch, seed_idx, min_version, queue, result_chan,
                   results, crawl_results, requests, params_refs,
                   results_closed, job_senders>>

\* crawl.rs lines 77-86, one critical section of crawled_instances: a domain
\* already in the set ends the job with Ok(()), otherwise it is inserted.
Claim(w) ==
    /\ workers[w].pc = "claim"
    /\ crawled_lock = w
    /\ crawled_lock' = 0
    /\ IF workers[w].domain \in crawled_instances
       THEN /\ FinishJob(w)
            /\ UNCHANGED crawled_instances
       ELSE /\ crawled_instances' = crawled_instances \cup {workers[w].domain}
            /\ workers' = [workers EXCEPT ![w].pc = "fetch"]
            /\ UNCHANGED <<params_refs, results_closed, job_senders>>
    /\ UNCHANGED <<inputs, aside, rcv_lock, orch, seed_idx, min_version, queue, result_chan,
                   results, crawl_results, requests>>

\* crawl returns the error and the task goes under with it.
FailJob_ErrorEscapes(w) ==
    /\ Panic(w)
    /\ job_senders' = job_senders - 1
    /\ UNCHANGED crawled_instances

\* crawl returns the error and the domain is taken out of crawled_instances
\* again.
FailJob_ForgetFailed(w) ==
    /\ FinishJob(w)
    /\ crawled_instances' = crawled_instances \ {workers[w].domain}

\* crawl returns Err (a `?` or a return Err(..) of lines 88-93 and 167-182);
\* background_task traces the error (lib.rs lines 104-107) and loops.
FailJob(w) ==
    /\ FinishJob(w)
    /\ UNCHANGED crawled_instances

\* crawl.rs lines 88 and 153-167: the nodeinfo and the site request are built
\* and sent, and join! waits for both.  A domain that is no URL host makes
\* both send() return the error at once, without a request.
SendRequests(w) ==
    /\ workers[w].pc = "fetch"
    /\ IF workers[w].domain \in NotUrlHosts
       THEN /\ FailJob(w)
            /\ UNCHANGED requests
       ELSE /\ requests' = [requests EXCEPT ![workers[w].domain] = @ + 1]
            /\ workers' = [workers EXCEPT ![w].pc = "join"]
            /\ UNCHANGED <<params_refs, results_closed, job_senders,
                           crawled_instances>>
    /\ UNCHANGED <<inputs, aside, locks, orch, seed_idx, min_version, queue,
                   result_chan, results, crawl_results>>

\* crawl.rs lines 167-170: both responses are in, the server answering with
\* one of the answers it may give.  A request that failed ends the job
\* (node_info?, site_info?); otherwise try_join! waits for the two bodies.
Join(w) ==
    /\ workers[w].pc = "join"
    /\ \E r \in net[workers[w].domain] :
          IF IdentityError(workers[w].domain, r) = "transport"
          THEN FailJob(w)
          ELSE /\ workers' = [workers EXCEPT ![w].pc = "try_join", ![w].answer = r]
               /\ UNCHANGED <<params_refs, results_closed, job_senders,
                              crawled_instances>>
    /\ UNCHANGED <<inputs, aside, locks, orch, seed_idx, min_version, queue,
                   result_chan, results, crawl_results, requests>>

\* crawl.rs lines 169-189 and 197-207: the bodies are decoded and the
\* software name and the actor's domain checked, each failure ending the
\* job; then fetch_communities requests page 1.
TryJoin(w) ==
    /\ workers[w].pc = "try_join"
    /\ LET r == workers[w].answer
       IN  IF IdentityError(workers[w].domain, r) # ""
           THEN FailJob(w)
           ELSE /\ workers' = [workers EXCEPT
                       ![w].pc = IF CommunitiesDiverge(r.communities)
                                 THEN "paging" ELSE "page",
                       ![w].page = 1,
                       ![w].site_info =
                           [version |-> r.site_info.version,
                            users_active_month |-> r.site_info.users_active_month,
                            federated_instances |->
                                r.site_info.federated_instances]]
                /\ UNCHANGED <<params_refs, results_closed, job_senders,
                               crawled_instances>>
    /\ UNCHANGED <<inputs, aside, locks, orch, seed_idx, min_version, queue,
                   result_chan, results, crawl_results, requests>>

\* crawl.rs lines 184-191 and 200-214, one turn of the loop of
\* fetch_communities: the answer to the page requested is in.  A failed
\* request makes the list empty (unwrap_or_default), a page shorter than
\* LIMIT ends it, and either way the federated_instances request goes out;
\* a full page has the next page requested.
Page(w) ==
    /\ workers[w].pc = "page"
    /\ LET len == PageAt(workers[w].answer.communities, workers[w].page)
           got == Append(workers[w].communities,
                         [page |-> workers[w].page, len |-> len])
       IN  workers' = [workers EXCEPT ![w] =
               IF len < 0
               THEN [@ EXCEPT !.pc = "federated", !.page = 0, !.communities = <<>>]
               ELSE IF len < LIMIT
               THEN [@ EXCEPT !.pc = "federated", !.page = 0, !.communities = got]
               ELSE [@ EXCEPT !.page = @ + 1, !.communities = got]]
    /\ UNCHANGED <<inputs, aside, locks, orch, seed_idx, min_version, params_refs,
                   results_closed, job_senders, queue, crawled_instances,
                   result_chan, results, crawl_results, requests>>

\* crawl.rs lines 200-214 on a listing whose every page is full: the next
\* page is requested, again and again.
Paging(w) ==
    /\ workers[w].pc = "paging"
    /\ workers' = [workers EXCEPT ![w].page = (@ % PageCycle) + 1]
    /\ UNCHANGED <<inputs, aside, locks, orch, seed_idx, min_version, params_refs,
                   results_closed, job_senders, queue, crawled_instances,
                   result_chan, results, crawl_results, requests>>

\* crawl.rs lines 191-194, 218-230 and 88-95: the answer to the
\* federated_instances request is in (an error is ignored) and
\* fetch_instance_details returns; the version is parsed and compared with
\* the minimum, and a job that is let through goes on to its children or
\* to its result.
Federated(w) ==
    /\ workers[w].pc = "federated"
    /\ LET r == workers[w].answer
       IN  IF VersionError(r.site_info.version, min_version) # ""
           THEN FailJob(w)
           ELSE /\ workers' = [workers EXCEPT
                       ![w].pc = IF MayExpand(workers[w].current_distance,
                                              max_distance)
                                 THEN "expand" ELSE "emit",
                       ![w].federated_instances =
                           federated_instances_of(r.federated)]
                /\ UNCHANGED <<params_refs, results_closed, job_senders,
                               crawled_instances>>
    /\ UNCHANGED <<inputs, aside, locks, orch, seed_idx, min_version, queue,
                   result_chan, results, crawl_results, requests>>

\* Expand taking the children from the allowed and blocked lists as well.
Expand_AllLists(w) ==
    /\ workers[w].pc = "expand"
    /\ crawled_lock = w
    /\ crawled_lock' = 0
    /\ LET children == ChildDomains(workers[w].federated_instances.linked
                                      \o workers[w].federated_instances.allowed
                                      \o workers[w].federated_instances.blocked,
                                    exclude_domains, crawled_instances)
       IN  /\ queue' = queue \o ChildJobs(children, workers[w].current_distance)
           /\ params_refs' = params_refs + Len(children)
    /\ workers' = [workers EXCEPT ![w].pc = "emit"]
    /\ UNCHANGED <<inputs, aside, rcv_lock, orch, seed_idx, min_version, results_closed,
                   job_senders, crawled_instances, result_chan, results,
                   crawl_results, requests>>

\* crawl.rs lines 95-115, one critical section of crawled_instances: the
\* linked peers that pass the three filters are sent as jobs, each with its
\* own Arc<CrawlParams>.
Expand(w) ==
    /\ workers[w].pc = "expand"
    /\ crawled_lock = w
    /\ crawled_lock' = 0
    /\ LET children == ChildDomains(workers[w].federated_instances.linked,
                                    exclude_domains, crawled_instances)
       IN  /\ queue' = queue \o ChildJobs(children, workers[w].current_distance)
           /\ params_refs' = params_refs + Len(children)
    /\ workers' = [workers EXCEPT ![w].pc = "emit"]
    /\ UNCHANGED <<inputs, aside, rcv_lock, orch, seed_idx, min_version, results_closed,
                   job_senders, crawled_instances, result_chan, results,
                   crawl_results, requests>>

\* geo_ip, crawl.rs lines 232-252, for a domain whose lookup would answer
\* geo: resolving the name fails ("err", the `?` of line 233, READER not
\* touched) or gives no address ("no_addr", the unwrap of line 234 panics);
\* then READER is forced, and its initialiser runs once: it panics, and
\* poisons READER for every later lookup, unless the database file is there
\* and can be read (the unwraps of lines 238-242).
geo_ip(geo, reader, database) ==
    IF geo = "err"
    THEN [state |-> "returned", value |-> "err", READER |-> reader]
    ELSE IF geo = "no_addr"
    THEN [state |-> "panicked", value |-> "", READER |-> reader]
    ELSE IF reader = "poisoned" \/ (reader = "uninit" /\ database # "installed")
    THEN [state |-> "panicked", value |-> "", READER |-> "poisoned"]
    ELSE [state |-> "returned", value |-> geo, READER |-> "ready"]

\* The CrawlResult of lines 117-140 for the job w holds, with geo_ip having
\* returned geo.
CrawlResult(w, geo) ==
    [domain            |-> workers[w].domain,
     node_info         |-> [usage |-> workers[w].answer.node_info.usage],
     site_info         |-> workers[w].site_info,
     geo_ip            |-> GeoField(geo),
     communities       |-> workers[w].communities,
     linked_instances  |-> workers[w].federated_instances.linked,
     allowed_instances |-> workers[w].federated_instances.allowed,
     blocked_instances |-> workers[w].federated_instances.blocked]

\* The task panics inside geo_ip: as Panic, with the upgraded job sender
\* dropped too.
GeoPanic(w) ==
    /\ workers' = [workers EXCEPT ![w] = Idle("geo_panicked")]
    /\ ReleaseParams
    /\ job_senders' = job_senders - 1

\* Emit sending the result twice.
Emit_Twice(w) ==
    /\ workers[w].pc = "emit"
    /\ LET g == geo_ip(workers[w].answer.geo_ip, READER, geo_database)
       IN  /\ READER' = g.READER
           /\ IF g.state = "panicked"
              THEN /\ GeoPanic(w)
                   /\ UNCHANGED result_chan
              ELSE IF orch \in {"returned", "error", "panicked", "aggregates_panicked"}
              THEN /\ Panic(w)
                   /\ job_senders' = job_senders - 1
                   /\ UNCHANGED result_chan
              ELSE /\ result_chan' = result_chan \o <<CrawlResult(w, g.value),
                                                      CrawlResult(w, g.value)>>
                   /\ FinishJob(w)
    /\ UNCHANGED <<inputs, pure, locks, orch, seed_idx, min_version, queue,
                   crawled_instances, results, crawl_results, requests>>

\* crawl.rs lines 117-143: the geo lookup is made (a panic in it ends the
\* task), the result is built and sent (unwrap: a panic when the receiver is
\* gone), and crawl returns Ok(()).
Emit(w) ==
    /\ workers[w].pc = "emit"
    /\ LET g == geo_ip(workers[w].answer.geo_ip, READER, geo_database)
       IN  /\ READER' = g.READER
           /\ IF g.state = "panicked"
              THEN /\ GeoPanic(w)
                   /\ UNCHANGED result_chan
              ELSE IF orch \in {"returned", "error", "panicked", "aggregates_panicked"}
              THEN /\ Panic(w)
                   /\ job_senders' = job_senders - 1
                   /\ UNCHANGED result_chan
              ELSE /\ result_chan' = Append(result_chan, CrawlResult(w, g.value))
                   /\ FinishJob(w)
    /\ UNCHANGED <<inputs, pure, locks, orch, seed_idx, min_version, queue,
                   crawled_instances, results, crawl_results, requests>>

(***************************************************************************)
(* The distance of a child job, a u8.                                      *)
(***************************************************************************)
\* u8::MAX
U8Max == 255

\* self.current_distance + 1 on u8: past u8::MAX the addition panics in a
\* build with overflow checks and wraps in one without.
ChildDistance(current_distance) ==
    IF current_distance + 1 <= U8Max
    THEN {[state |-> "made", distance |-> current_distance + 1]}
    ELSE {[state |-> "panicked", distance |-> 0],
          [state |-> "made", distance |-> (current_distance + 1) % (U8Max + 1)]}

NoHop == [max_distance |-> 0, current_distance |-> 0,
          child |-> [state |-> "off", distance |-> 0]]

\* crawl.rs lines 95 and 107-113: a job that may send children makes the
\* child's distance.
NewChild ==
    /\ hop.child.state = "pending"
    /\ MayExpand(hop.current_distance, hop.max_distance)
    /\ \E c \in ChildDistance(hop.current_distance) :
          hop' = [hop EXCEPT !.child = c]
    /\ UNCHANGED <<crawl, decoder, lister>>

\* crawl.rs line 95: the test fails and no child is made.
SkipChildren ==
    /\ hop.child.state = "pending"
    /\ ~MayExpand(hop.current_distance, hop.max_distance)
    /\ hop' = [hop EXCEPT !.child.state = "skipped"]
    /\ UNCHANGED <<crawl, decoder, lister>>

(***************************************************************************)
(* fetch_communities, one request at a time.                               *)
(***************************************************************************)
\* How many pages a listing spells out.
MaxPages == 2

\* The number of communities a page may hold; -1 is a failed request.
PageSizes == {0 - 1, 0, 3, LIMIT, LIMIT + 1}

RECURSIVE PageSeqs(_)
PageSeqs(n) ==
    IF n = 0 THEN {<<>>}
    ELSE PageSeqs(n - 1) \cup
         {Append(ps, c) : ps \in PageSeqs(n - 1), c \in PageSizes}

Listings == [pages : PageSeqs(MaxPages), endless : BOOLEAN]

NotListing == [pc |-> "off", page |-> 0, communities |-> <<>>]

NotTaken == [set |-> FALSE, value |-> <<>>]

\* unwrap_or_default keeping what the loop had collected when it failed.
UnwrapOrDefault_KeepPartial ==
    /\ loop.pc \in {"ok", "err"}
    /\ ~community_field.set
    /\ community_field' = [set |-> TRUE, value |-> loop.communities]
    /\ UNCHANGED <<crawl, decoder, hop, listing, loop>>

\* crawl.rs lines 200-214, one turn of the loop: the page is requested; a
\* failed request returns the error, otherwise the page is appended and the
\* loop ends when it was shorter than LIMIT.
RequestPage ==
    /\ loop.pc = "loop"
    /\ loop.page <= MaxPages + 1
    /\ LET len == PageAt(listing, loop.page)
           got == Append(loop.communities, [page |-> loop.page, len |-> len])
       IN  loop' = IF len < 0 THEN [loop EXCEPT !.pc = "err"]
                   ELSE IF len < LIMIT
                   THEN [loop EXCEPT !.pc = "ok", !.communities = got]
                   ELSE [loop EXCEPT !.page = @ + 1, !.communities = got]
    /\ UNCHANGED <<crawl, decoder, hop, listing, community_field>>

\* crawl.rs lines 185-189: unwrap_or_default() on what fetch_communities
\* returned.
UnwrapOrDefault ==
    /\ loop.pc \in {"ok", "err"}
    /\ ~community_field.set
    /\ community_field' =
          [set |-> TRUE,
           value |-> IF loop.pc = "ok" THEN loop.communities ELSE <<>>]
    /\ UNCHANGED <<crawl, decoder, hop, listing, loop>>

(***************************************************************************)
(* Decoding a response (structs.rs).                                       *)
(***************************************************************************)
\* serde_json::from_*::<GetFederatedInstancesResponse> on the body.
Decode ==
    /\ decoded_response = Undecoded
    /\ decoded_response' = Deserialize(raw_payload)
    /\ UNCHANGED <<crawl, lister, hop, raw_payload, accessor_result>>

\* response.federated_instances() on a decoded response.
Access ==
    /\ decoded_response.status = "ok"
    /\ accessor_result = NotCalled
    /\ accessor_result' =
          [called |-> TRUE, value |-> federated_instances(decoded_response)]
    /\ UNCHANGED <<crawl, lister, hop, raw_payload, decoded_response>>

(***************************************************************************)
(* Initial states: the arguments of start_crawl and the network.           *)
(***************************************************************************)
A == "a.example"

B == "b.example"

C == "c.example"

D == "xn--mnchen-3ya.example"

\* The name of Domains that is no host.
NoHost == "xn--d.example"

Nobody == [d \in Domains |-> {Unreachable(d)}]

\* a.example reports the peers b.example, a.example and !!bad; the fetch of
\* b.example fails, in any of the ways a fetch can fail.
ScenarioNet ==
    [Nobody EXCEPT
        ![A] = {Server(A, <<B, A, "!!bad">>, <<>>, <<>>)},
        ![B] = {Faulty(Server(B, <<C>>, <<>>, <<>>), k) :
                   k \in {"node_err", "site_err", "node_undecodable",
                          "site_undecodable", "wrong_software", "wrong_domain",
                          "unparsable_version", "old_version", "prerelease"}}]

\* Three healthy servers in a ring.
RingNet ==
    [Nobody EXCEPT
        ![A] = {Server(A, <<B>>, <<>>, <<>>)},
        ![B] = {Server(B, <<C>>, <<>>, <<>>)},
        ![C] = {Server(C, <<A>>, <<>>, <<>>)}]

\* Servers whose answer is not fixed in advance: c.example may be healthy,
\* fail its requests or list communities without end; a.example and
\* b.example may fail in one way; the site info of the fourth comes without
\* its peers.
WideNet ==
    [Nobody EXCEPT
        ![A] = {Server(A, <<B, C>>, <<C>>, <<B>>),
                Faulty(Server(A, <<B>>, <<>>, <<>>), "old_version")},
        ![B] = {Server(B, <<A, C, D>>, <<>>, <<>>),
                Faulty(Server(B, <<A>>, <<>>, <<>>), "wrong_software")},
        ![C] = {Server(C, <<>>, <<>>, <<>>)} \cup
               {Faulty(Server(C, <<>>, <<>>, <<>>), k) :
                   k \in {"node_err", "communities_endless"}},
        ![D] = {Faulty(Server(D, <<>>, <<>>, <<>>), "site_without_peers")}]

\* Two healthy servers that list each other.
MutualNet ==
    [Nobody EXCEPT
        ![A] = {Server(A, <<B>>, <<>>, <<>>)},
        ![B] = {Server(B, <<A>>, <<>>, <<>>)}]

\* Two servers that list each other, a.example reporting i64::MAX users in
\* its nodeinfo.
UsageNet ==
    [Nobody EXCEPT
        ![A] = {Faulty(Server(A, <<B>>, <<>>, <<>>), "usage_max")},
        ![B] = {Server(B, <<A>>, <<>>, <<>>)}]

\* One healthy server with no peers: an empty linked list, no peers object,
\* or a failed federated_instances request.
LoneNet ==
    [Nobody EXCEPT
        ![A] = {Server(A, <<>>, <<>>, <<>>),
                Faulty(Server(A, <<>>, <<>>, <<>>), "federated_none"),
                Faulty(Server(A, <<B>>, <<>>, <<>>), "federated_err")}]

\* Servers that pass every check and fail only in the optional parts: the
\* community listing of a.example (its second page), the geo lookup of
\* b.example.
EnrichmentNet ==
    [Nobody EXCEPT
        ![A] = {Faulty(Server(A, <<B>>, <<>>, <<>>), "communities_err"),
                Faulty(Faulty(Server(A, <<B>>, <<>>, <<>>), "communities_err"),
                       "geo_none")},
        ![B] = {Faulty(Server(B, <<>>, <<>>, <<>>), "geo_err"),
                Faulty(Server(B, <<>>, <<>>, <<>>), "geo_none"),
                Faulty(Server(B, <<>>, <<>>, <<>>), "geo_no_addr")}]

\* a.example healthy and linking two servers of which one request fails:
\* the federated_instances request of b.example; the nodeinfo request of
\* c.example, or the decoding of its site info.
PartialNet ==
    [Nobody EXCEPT
        ![A] = {Server(A, <<B, C>>, <<>>, <<>>)},
        ![B] = {Faulty(Server(B, <<A>>, <<A>>, <<A>>), "federated_err")},
        ![C] = {Faulty(Server(C, <<>>, <<>>, <<>>), "node_err"),
                Faulty(Server(C, <<>>, <<>>, <<>>), "site_undecodable")}]

\* c.example is known only from the allowed list of a.example and the
\* blocked list of its linked peer b.example.
ListsNet ==
    [Nobody EXCEPT
        ![A] = {Server(A, <<B>>, <<C>>, <<>>)},
        ![B] = {Server(B, <<>>, <<>>, <<C>>)},
        ![C] = {Server(C, <<>>, <<>>, <<>>)}]

\* The version reports the gate is tried on, besides the healthy 0.16.3.
GateKinds == {"old_version", "minimum_version", "prerelease", "later_prerelease",
              "build", "lesser_build", "unparsable_version"}

\* a.example healthy, its peer b.example reporting one of those versions.
GateNet(kind) ==
    [Nobody EXCEPT
        ![A] = {Server(A, <<B>>, <<>>, <<>>)},
        ![B] = {Faulty(Server(B, <<>>, <<>>, <<>>), kind)}]

GateNets == {GateNet(k) : k \in GateKinds}

\* The networks, start instances and excluded domains the runs start from,
\* with the GeoIP database installed, and one network without it.
Cases ==
    [net : GateNets, start_instances : {<<A>>},
     exclude_domains : {{}}, geo_database : {"installed"}]
    \cup
    [net : {MutualNet, UsageNet}, start_instances : {<<A, B>>},
     exclude_domains : {{}}, geo_database : {"installed"}]
    \cup
    [net : {LoneNet, EnrichmentNet, PartialNet, ListsNet},
     start_instances : {<<A>>},
     exclude_domains : {{}}, geo_database : {"installed"}]
    \cup
    [net : {ScenarioNet}, start_instances : {<<A>>}, exclude_domains : {{}},
     geo_database : {"installed"}]
    \cup
    [net : {RingNet}, start_instances : {<<>>, <<A>>, <<A, B>>, <<A, A>>, <<NoHost>>},
     exclude_domains : {{}}, geo_database : {"installed"}]
    \cup
    [net : {RingNet}, start_instances : {<<A>>},
     exclude_domains : {{A}, {B}}, geo_database : {"installed"}]
    \cup
    [net : {WideNet}, start_instances : {<<A>>, <<D>>},
     exclude_domains : {{}, {C}}, geo_database : {"installed"}]
    \cup
    [net : {EnrichmentNet}, start_instances : {<<A>>},
     exclude_domains : {{}}, geo_database : {"missing"}]

\* The VERSION files a run starts with: the one with a pre-release tag and a
\* CRLF ending goes with the networks the gate is tried on, the one with
\* build metadata with those of them in which b.example reports 0.15.3 with
\* or without build metadata.
VersionFilesOf(network) ==
    IF network \in {GateNet(k) : k \in {"minimum_version", "build", "lesser_build"}}
    THEN VersionFiles
    ELSE IF network \in GateNets THEN VersionFiles \ {"0.16.3+b2\n"}
    ELSE VersionFiles \ {"0.16.3-rc.2\r\n", "0.16.3+b2\n"}

\* start_crawl has not run yet.
CrawlStart ==
    /\ orch = "start"
    /\ seed_idx = 1
    /\ min_version = NoVersion
    /\ params_refs = 0
    /\ results_closed = FALSE
    /\ job_senders = 1
    /\ queue = <<>>
    /\ crawled_instances = {}
    /\ result_chan = <<>>
    /\ results = <<>>
    /\ crawl_results = <<>>
    /\ workers = [w \in Workers |-> Idle("unspawned")]
    /\ requests = [d \in Domains |-> 0]
    /\ READER = "uninit"
    /\ crawled_lock = 0
    /\ rcv_lock = 0

\* No response body to decode.
DecoderOff ==
    /\ raw_payload = [decodes_as |-> {}, some |-> FALSE, linked |-> <<>>,
                      allowed |-> <<>>, blocked |-> <<>>]
    /\ decoded_response = [Undecoded EXCEPT !.status = "err"]
    /\ accessor_result = NotCalled

\* No listing to fetch.
ListerOff ==
    /\ listing = [pages |-> <<>>, endless |-> FALSE]
    /\ loop = NotListing
    /\ community_field = NotTaken

\* start_crawl is not called.
NoCrawl ==
    /\ start_instances = <<>>
    /\ exclude_domains = {}
    /\ jobs_count = 0
    /\ max_distance = 0
    /\ version_file = "err"
    /\ geo_database = "installed"
    /\ net = Nobody
    /\ CrawlStart

\* start_crawl is about to be called in one of the given cases.
InitFrom(cases) ==
    /\ \E c \in cases :
          /\ net = c.net
          /\ start_instances = c.start_instances
          /\ exclude_domains = c.exclude_domains
          /\ geo_database = c.geo_database
          /\ version_file \in VersionFilesOf(c.net)
    /\ jobs_count \in 0..MaxJobs
    /\ net = UsageNet => jobs_count <= 1
    /\ max_distance \in 0..MaxDistance
    /\ CrawlStart
    /\ DecoderOff
    /\ ListerOff
    /\ hop = NoHop

Init == InitFrom(Cases)

\* The cases whose runs are followed to their end under the fair scheduler:
\* the three scenarios, the servers whose answer is not fixed in advance and
\* those with usage counters at the end of their range (each crawled by at
\* most one task), a crawl without start instances and the crawl without the
\* GeoIP database.
FairCases ==
    {c \in Cases : \/ c.net \in {ScenarioNet, MutualNet, UsageNet, LoneNet, WideNet}
                   \/ c.start_instances = <<>>
                   \/ c.geo_database = "missing"}

FairInit ==
    /\ InitFrom(FairCases)
    /\ net = WideNet => jobs_count <= 1

\* No crawl going on; a response body is about to be decoded.
DecodeInit ==
    /\ start_instances = <<>>
    /\ exclude_domains = {}
    /\ jobs_count = 0
    /\ max_distance = 0
    /\ version_file = "err"
    /\ geo_database = "installed"
    /\ net = Nobody
    /\ CrawlStart
    /\ raw_payload \in Payloads
    /\ decoded_response = Undecoded
    /\ accessor_result = NotCalled
    /\ ListerOff
    /\ hop = NoHop

DecodeNext ==
    \/ Decode
    \/ Access

DecodeSpec == DecodeInit /\ [][DecodeNext]_vars

\* No crawl going on; fetch_communities is about to request page 1 of a
\* listing.
ListingInit ==
    /\ NoCrawl
    /\ DecoderOff
    /\ listing \in Listings
    /\ loop = [pc |-> "loop", page |-> 1, communities |-> <<>>]
    /\ community_field = NotTaken
    /\ hop = NoHop

ListingNext ==
    \/ RequestPage
    \/ UnwrapOrDefault

ListingSpec == ListingInit /\ [][ListingNext]_vars

\* No crawl going on; a job at a distance within the maximum, as every job
\* is, has passed the checks.
DistanceInit ==
    /\ NoCrawl
    /\ DecoderOff
    /\ ListerOff
    /\ \E max \in 0..U8Max : \E current \in 0..max :
          hop = [max_distance |-> max, current_distance |-> current,
                 child |-> [state |-> "pending", distance |-> 0]]

DistanceNext ==
    \/ NewChild
    \/ SkipChildren

DistanceSpec == DistanceInit /\ [][DistanceNext]_vars

Next ==
    \/ StartCrawl
    \/ SeedJob
    \/ DropParams
    \/ RecvResult
    \/ Return
    \/ \E w \in Workers : LockReceiver(w)
    \/ \E w \in Workers : Recv(w)
    \/ \E w \in Workers : WorkerExit(w)
    \/ \E w \in Workers : LockCrawled(w)
    \/ \E w \in Workers : Claim(w)
    \/ \E w \in Workers : SendRequests(w)
    \/ \E w \in Workers : Join(w)
    \/ \E w \in Workers : TryJoin(w)
    \/ \E w \in Workers : Page(w)
    \/ \E w \in Workers : Paging(w)
    \/ \E w \in Workers : Federated(w)
    \/ \E w \in Workers : Expand(w)
    \/ \E w \in Workers : Emit(w)

Spec == Init /\ [][Next]_vars

\* One step of background task w.
WorkerStep(w) ==
    /\ w \in Workers
    /\ \/ LockReceiver(w)
       \/ Recv(w)
       \/ WorkerExit(w)
       \/ LockCrawled(w)
       \/ Claim(w)
       \/ SendRequests(w)
       \/ Join(w)
       \/ TryJoin(w)
       \/ Page(w)
       \/ Paging(w)
       \/ Federated(w)
       \/ Expand(w)
       \/ Emit(w)

\* The runtime keeps running every task that can run, and every request
\* comes back: start_crawl and each background task take their next step.
Fairness ==
    /\ WF_vars(StartCrawl \/ SeedJob \/ DropParams \/ RecvResult \/ Return)
    /\ \A w \in 1..MaxJobs : WF_vars(WorkerStep(w))

FairSpec == FairInit /\ [][Next]_vars /\ Fairness

(***************************************************************************)
(* Properties.                                                             *)
(***************************************************************************)
\* Every result sent so far, in the order sent.
Emitted == results \o result_chan

EmittedDomains == [i \in 1..Len(Emitted) |-> Emitted[i].domain]

ReturnedDomains == [i \in 1..Len(crawl_results) |-> crawl_results[i].domain]

NoRepeats(s) == \A i, j \in 1..Len(s) : i # j => s[i] # s[j]

\* The workers that hold a job, and those past the claim.
Holding == {w \in Workers : workers[w].pc \in
               {"claim", "fetch", "join", "try_join", "page", "paging",
                "federated", "expand", "emit"}}

PastClaim == {w \in Workers : workers[w].pc \in
                 {"fetch", "join", "try_join", "page", "paging", "federated",
                  "expand", "emit"}}

QueuedJobs == {queue[i] : i \in 1..Len(queue)}

\* C1: no address appears more than once among the results sent, collected
\* or returned, whatever the seeds, the peer lists and the interleaving.
C1_NoDuplicateResults ==
    /\ NoRepeats(EmittedDomains)
    /\ NoRepeats(ReturnedDomains)

\* C1 witness: a run seeded twice with a.example, worked by two tasks, has
\* returned, with a.example and a peer that links back to it in the results.
C1_Witness ==
    /\ orch = "returned"
    /\ start_instances = <<A, A>>
    /\ jobs_count = 2
    /\ Len(crawl_results) >= 2
    /\ \E i \in 1..Len(crawl_results) : crawl_results[i].domain = A

\* C3: the claim comes before any request and is won once per address: no
\* domain is sent its requests by more than one job, at most one task is past
\* the claim with a given domain, and whoever is past it (or has sent
\* requests) has the domain in crawled_instances.
C3_ClaimOncePerAddress ==
    /\ \A d \in Domains :
          /\ requests[d] <= 1
          /\ requests[d] = 1 => d \in crawled_instances
          /\ Cardinality({w \in PastClaim : workers[w].domain = d}) <= 1
    /\ \A w \in PastClaim : workers[w].domain \in crawled_instances
    /\ \A w \in Workers : workers[w].pc = "claim" /\ workers[w].domain \notin crawled_instances
                              => requests[workers[w].domain] = 0

\* C3 witness: both jobs for a.example were pulled by two tasks, one was
\* rejected, and a.example got its requests once.
C3_Witness ==
    /\ start_instances = <<A, A>>
    /\ jobs_count = 2
    /\ max_distance = 0
    /\ seed_idx = 3
    /\ queue = <<>>
    /\ Holding = {}
    /\ requests[A] = 1

\* C4: every job, queued or held by a task, has current_distance at most
\* max_distance; so the job behind every result had.
C4_DistanceBound ==
    /\ \A j \in QueuedJobs : j.current_distance <= max_distance
    /\ \A w \in Holding : workers[w].current_distance <= max_distance

\* C4 witness: a child job sits in the queue exactly at the bound.
C4_Witness ==
    /\ max_distance >= 1
    /\ \E j \in QueuedJobs : j.current_distance = max_distance

\* C5 (as claimed): an excluded address gets no job, no request and no result.
C5_ExcludedNeverTouched ==
    \A d \in exclude_domains :
        /\ \A j \in QueuedJobs : j.domain # d
        /\ \A w \in Holding : workers[w].domain # d
        /\ requests[d] = 0
        /\ \A i \in 1..Len(Emitted) : Emitted[i].domain # d

\* The one answer of a server whose answer is fixed.
TheAnswer(d) == CHOOSE a \in net[d] : TRUE

\* d is not excluded, matches DOMAIN_REGEX, and its server always answers
\* with lemmy software, its own identity and an accepted version.
Valid(d) ==
    /\ d \notin exclude_domains
    /\ DOMAIN_REGEX_is_match(d)
    /\ Cardinality(net[d]) = 1
    /\ LET a == TheAnswer(d)
       IN  /\ a.node_info.status = "ok"
           /\ a.site_info.status = "ok"
           /\ a.node_info.software = "lemmy"
           /\ a.site_info.actor_domain = d
           /\ Parsed(a.site_info.version).ok
           /\ ~VersionLess(Parsed(a.site_info.version), min_version)
           /\ ~CommunitiesDiverge(a.communities)

LinkedPeers(d) ==
    LET f == TheAnswer(d).federated
    IN  IF f.status = "ok" /\ f.present THEN Elements(f.linked) ELSE {}

\* The valid servers at the end of a chain of at most k links from a seed.
RECURSIVE ReachableWithin(_)
ReachableWithin(k) ==
    IF k = 0 THEN {d \in Elements(start_instances) : Valid(d)}
    ELSE LET near == ReachableWithin(k - 1)
         IN  near \cup {d \in Domains : Valid(d) /\ \E p \in near : d \in LinkedPeers(p)}

\* C6 (as claimed): when start_crawl has returned, every valid server within
\* max_distance links of a seed has exactly one result.
C6_ReachableVisitedOnce ==
    orch = "returned" =>
        \A d \in ReachableWithin(max_distance) :
            Cardinality({i \in 1..Len(crawl_results) : crawl_results[i].domain = d}) = 1

\* C7 (as claimed): every result's address matches the domain pattern and its
\* reported version parses and is not below the minimum.
C7_ResultsValidated ==
    \A i \in 1..Len(Emitted) :
        /\ DOMAIN_REGEX_is_match(Emitted[i].domain)
        /\ Parsed(Emitted[i].site_info.version).ok
        /\ ~VersionLess(Parsed(Emitted[i].site_info.version), min_version)

\* The answers the claim calls failed, read off the answer itself: a
\* transport error or an undecodable payload on either request, software
\* other than lemmy, an identity other than d, a version that does not parse
\* or lies below 0.15.3-rc.2 (the lowest minimum a run has, that of the
\* published 0.16.3-rc.2).
Fatal(d, a) ==
    \/ a.node_info.status # "ok"
    \/ a.site_info.status # "ok"
    \/ a.node_info.software # "lemmy"
    \/ a.site_info.actor_domain # d
    \/ a.site_info.version \in {"unknown", "0.19"}
    \/ a.site_info.version \in {"0.15.2", "0.15.3-rc.1"}

\* Some answer d's server may give is not a failed one and reports version v.
SoundAnswer(d, v) ==
    \E a \in net[d] : ~Fatal(d, a) /\ a.site_info.version = v

\* C8: a failed job sends nothing: every result, and every job that has got
\* as far as sending children or its result, rests on an answer that is not
\* a failed one; a server that only ever gives failed answers has no result
\* and no job past the fetch.
C8_FailedJobSendsNothing ==
    /\ \A i \in 1..Len(Emitted) :
          SoundAnswer(Emitted[i].domain, Emitted[i].site_info.version)
    /\ \A w \in Workers : workers[w].pc \in {"expand", "emit"} =>
          SoundAnswer(workers[w].domain, workers[w].site_info.version)

\* C8 witness: in the scenario network the fetch of b.example, which can only
\* fail, has been made and its job is over.
C8_Witness ==
    /\ net = ScenarioNet
    /\ requests[B] = 1
    /\ Holding = {}
    /\ queue = <<>>

\* start_crawl is past its receive loop: it has returned, or it has gone
\* under in calculate_federated_site_aggregates.
StartCrawlOver == orch \in {"returned", "aggregates_panicked"}

\* The seeds are all sent.
Seeded == orch \in {"seeding", "draining", "returned"} /\ seed_idx > Len(start_instances)

\* C9 (as claimed): once the seeds are sent, the result channel is closed
\* exactly when no job is queued and no job is running.
C9_ClosedIffFrontierEmpty ==
    Seeded /\ start_instances # <<>> =>
        (results_closed <=> queue = <<>> /\ Holding = {})

\* C9 (amended): while CrawlParams exists its strong count is one per queued
\* job, one per job a task holds, and one for start_crawl until its
\* drop(params); the result channel is closed exactly when the count is zero.
C9_HandleCount ==
    orch \in {"seeding", "draining", "returned"} =>
        /\ params_refs = Len(queue) + Cardinality(Holding)
                          + (IF orch = "seeding" THEN 1 ELSE 0)
        /\ results_closed <=> params_refs = 0

\* C9 witness: the channel closed after jobs of all three endings: a result
\* was sent, some server failed its fetch, and of the two jobs a.example
\* sent for c.example one was rejected.
C9_Witness ==
    /\ results_closed
    /\ orch = "draining"
    /\ net = WideNet
    /\ start_instances = <<A>>
    /\ requests[C] = 1
    /\ Len(Emitted) >= 1
    /\ \E d \in Domains : requests[d] = 1 /\ \A i \in 1..Len(Emitted) : Emitted[i].domain # d

\* C2 (as claimed): with at least one task, fair scheduling and every request
\* answered, a crawl that has started ends with the result channel closed
\* and start_crawl returned.
C2_Terminates ==
    (orch = "seeding" /\ jobs_count >= 1) ~> (orch = "returned" /\ results_closed)

\* The same for the networks in which no community listing goes on for ever
\* and every usage counter is far from the ends of i64, with the GeoIP
\* database installed.
ListingsEnd ==
    \A d \in Domains : \A a \in net[d] : ~CommunitiesDiverge(a.communities)

UsageSumsFit ==
    \A d \in Domains : \A a \in net[d] :
        a.node_info.status = "ok" =>
            \A i \in 1..5 : /\ UsageFields(a.node_info.usage)[i][3] = 0
                             /\ UsageFields(a.node_info.usage)[i][4] = 0

TerminatesWhenListingsEnd ==
    (orch = "seeding" /\ jobs_count >= 1 /\ ListingsEnd /\ UsageSumsFit
                      /\ geo_database = "installed")
        ~> (orch = "returned" /\ results_closed)

\* The scenario of C10: the one seed a.example, max_distance 1, a.example
\* reporting the peers b.example, a.example, !!bad, b.example failing; the
\* GeoIP database is installed.
Scenario ==
    /\ net = ScenarioNet
    /\ start_instances = <<A>>
    /\ exclude_domains = {}
    /\ max_distance = 1
    /\ jobs_count >= 1
    /\ version_file = "0.16.3\n"
    /\ geo_database = "installed"

\* In the scenario: the only job for a.example is the seed (queued only
\* before anything is claimed), !!bad is never queued, b.example is queued
\* only at distance 1, and only a.example has a result.
ScenarioSafe ==
    /\ \A j \in QueuedJobs :
          \/ j.domain = A /\ j.current_distance = 0 /\ crawled_instances = {}
          \/ j.domain = B /\ j.current_distance = 1
    /\ \A w \in Holding : workers[w].domain \in {A, B}
    /\ \A i \in 1..Len(Emitted) : Emitted[i].domain = A

\* C10: in the scenario the safety part above always holds, the job for
\* b.example is queued at distance 1, and the run ends with the channel
\* closed and exactly the one result for a.example returned.
C10_Scenario ==
    /\ [](Scenario => ScenarioSafe)
    /\ (Scenario /\ orch = "start")
          ~> ([domain |-> B, current_distance |-> 1] \in QueuedJobs)
    /\ (Scenario /\ orch = "seeding")
          ~> (orch = "returned" /\ results_closed /\ ReturnedDomains = <<A>>)

\* C10 witness: the scenario has run to its end, b.example's fetch made.
C10_Witness ==
    /\ Scenario
    /\ orch = "returned"
    /\ requests[B] = 1
    /\ ReturnedDomains = <<A>>

\* The scenario of C11: the seeds a.example and b.example, both passing
\* every check, each listing the other as its peer; the GeoIP database is
\* installed.
Mutual ==
    /\ net \in {MutualNet, UsageNet}
    /\ start_instances = <<A, B>>
    /\ jobs_count >= 1
    /\ version_file = "0.16.3\n"
    /\ geo_database = "installed"

\* C11 (as claimed): in that scenario, for every max_distance and
\* interleaving, no address has two results and the run ends with exactly two
\* results returned, one for each seed.
C11_MutualSeeds ==
    /\ [](Mutual => Len(Emitted) <= 2 /\ NoRepeats(EmittedDomains))
    /\ (Mutual /\ orch = "start")
          ~> /\ orch = "returned"
             /\ results_closed
             /\ Len(crawl_results) = 2
             /\ {crawl_results[i].domain : i \in 1..Len(crawl_results)} = {A, B}

\* What holds of the scenario whatever the servers report as their usage:
\* no address has two results, and start_crawl gets to the end of its receive
\* loop with the channel closed and exactly the two results collected; with
\* usage counters whose sums fit it returns them.
MutualSeedsCollected ==
    /\ [](Mutual => Len(Emitted) <= 2 /\ NoRepeats(EmittedDomains))
    /\ (Mutual /\ orch = "start")
          ~> /\ StartCrawlOver
             /\ results_closed
             /\ Len(results) = 2
             /\ {results[i].domain : i \in 1..Len(results)} = {A, B}
    /\ (Mutual /\ UsageSumsFit /\ orch = "start")
          ~> /\ orch = "returned"
             /\ Len(crawl_results) = 2
             /\ {crawl_results[i].domain : i \in 1..Len(crawl_results)} = {A, B}

\* The scenario of C12: the one seed a.example, healthy, without peers; the
\* GeoIP database is installed.
Lone ==
    /\ net = LoneNet
    /\ start_instances = <<A>>
    /\ jobs_count >= 1
    /\ version_file = "0.16.3\n"
    /\ geo_database = "installed"

\* C12: in that scenario the queue never holds a job other than the seed
\* (and the seed only before it is claimed), at most one result is sent, and
\* the run ends with exactly the one result for a.example.
C12_LoneSeed ==
    /\ [](Lone => /\ Len(queue) <= 1
                  /\ \A j \in QueuedJobs :
                        j = [domain |-> A, current_distance |-> 0]
                  /\ (queue # <<>> => crawled_instances = {})
                  /\ Len(Emitted) <= 1)
    /\ (Lone /\ orch = "start")
          ~> (orch = "returned" /\ results_closed /\ ReturnedDomains = <<A>>)

\* C12 witness: the seed was allowed to send children (max_distance >= 1),
\* sent none, and its one result is returned.
C12_Witness ==
    /\ Lone
    /\ max_distance >= 1
    /\ orch = "returned"
    /\ requests[A] = 1
    /\ queue = <<>>
    /\ ReturnedDomains = <<A>>

\* The version the VERSION file publishes.
Published == VersionParseChars(Trim(Chars(version_file)))

\* n + 1 on the decimal digits of n.
RECURSIVE Carry(_)
Carry(ds) ==
    IF Len(ds) = 0 THEN <<"1">>
    ELSE IF ds[Len(ds)] # "9"
    THEN SubSeq(ds, 1, Len(ds) - 1) \o <<DigitOf(DigitValue(ds[Len(ds)]) + 1)>>
    ELSE Carry(SubSeq(ds, 1, Len(ds) - 1)) \o <<"0">>

\* C13 (as claimed): for every published version major.minor.patch, once
\* start_crawl is past min_lemmy_version the minimum acceptable version is
\* major.(minor - 1).patch.
C13_MinimumVersion ==
    (version_file # "err" /\ Published.ok /\ orch # "start") =>
        /\ orch \notin {"error", "panicked"}
        /\ min_version.ok
        /\ min_version.major = Published.major
        /\ Carry(min_version.minor) = Published.minor
        /\ min_version.patch = Published.patch

\* a is below b in (major, minor, patch) order.
TripleLess(a, b) ==
    \/ NumCmp(a.major, b.major) < 0
    \/ a.major = b.major /\ NumCmp(a.minor, b.minor) < 0
    \/ a.major = b.major /\ a.minor = b.minor /\ NumCmp(a.patch, b.patch) < 0

\* The server of d gives one answer, which passes the checks before the
\* gate, reports a version that parses, and has a listing that ends.
Gated(d) ==
    /\ Cardinality(net[d]) = 1
    /\ LET a == TheAnswer(d)
       IN  /\ a.node_info.status = "ok"
           /\ a.site_info.status = "ok"
           /\ a.node_info.software = "lemmy"
           /\ a.site_info.actor_domain = d
           /\ Parsed(a.site_info.version).ok
           /\ ~CommunitiesDiverge(a.communities)

ReportedVersion(d) == Parsed(TheAnswer(d).site_info.version)

\* The job that fetched d is over.
JobDone(d) ==
    /\ requests[d] >= 1
    /\ \A w \in PastClaim : workers[w].domain # d

HasResult(d) == \E i \in 1..Len(Emitted) : Emitted[i].domain = d

\* The geo lookup of a job for d returns, with a location, without one or
\* with an error: the GeoIP database is installed and the name of d resolves
\* to an address or not at all.
LookupReturns(d) ==
    /\ geo_database = "installed"
    /\ \A r \in net[d] : r.geo_ip # "no_addr"

\* C14 (as claimed): a server that gets as far as the gate is rejected
\* exactly when its version is strictly below the minimum in (major, minor,
\* patch) order.
C14_GateByTriple ==
    \A d \in Domains : (Gated(d) /\ LookupReturns(d) /\ JobDone(d)) =>
        (HasResult(d) <=> ~TripleLess(ReportedVersion(d), min_version))

\* v precedes m in semver order: below it in (major, minor, patch), or equal
\* to it there and a pre-release of it that m is not, or an earlier
\* pre-release than m, or the same one with lesser build metadata.
Precedes(v, m) ==
    \/ TripleLess(v, m)
    \/ /\ v.major = m.major /\ v.minor = m.minor /\ v.patch = m.patch
       /\ \/ v.pre # <<>> /\ m.pre = <<>>
          \/ v.pre # <<>> /\ m.pre # <<>> /\ PrereleaseCmp(v.pre, m.pre) < 0
          \/ v.pre = m.pre /\ BuildMetadataCmp(v.build, m.build) < 0

\* The versions b.example reports to the gate that are let through, by the
\* VERSION file published: the minimum is 0.15.3 for 0.16.3, 0.15.3-rc.2 for
\* 0.16.3-rc.2 and 0.15.3+b2 for 0.16.3+b2.  Build metadata b10 comes before
\* b2, the two being words, and no build metadata comes before any.
LetThrough ==
    CASE version_file = "0.16.3\n"          ->
             {"0.15.3", "0.15.3+b2", "0.15.3+b10"}
      [] version_file = "0.16.3-rc.2\r\n"   ->
             {"0.15.3", "0.15.3-rc.10", "0.15.3+b2", "0.15.3+b10"}
      [] version_file = "0.16.3+b2\n"       -> {"0.15.3+b2"}
      [] OTHER                               -> {}

\* C14 (amended): the gate rejects exactly the versions that precede the
\* minimum in semver order, pre-release tag and build metadata included.
\* With the minimum 0.15.3, 0.15.2, 0.15.3-rc.1 and 0.15.3-rc.10 are rejected
\* and 0.15.3, 0.15.3+b2 and 0.16.3 accepted; with the minimum 0.15.3-rc.2,
\* 0.15.3-rc.1 is rejected and 0.15.3-rc.10 and 0.15.3 are accepted; with
\* the minimum 0.15.3+b2, 0.15.3 and 0.15.3+b10 are rejected and 0.15.3+b2
\* is accepted.
C14_GateBySemver ==
    /\ \A d \in Domains : (Gated(d) /\ LookupReturns(d) /\ JobDone(d)) =>
          (HasResult(d) <=> ~Precedes(ReportedVersion(d), min_version))
    /\ (net \in GateNets /\ JobDone(B)) =>
          (HasResult(B) <=> TheAnswer(B).site_info.version \in LetThrough)

\* C14 witness: with the minimum 0.15.3+b2, b.example reported 0.15.3, which
\* differs from the minimum in the build metadata only, and its job is over
\* without a result; a.example, with 0.16.3, has its result.
C14_Witness ==
    /\ net = GateNet("minimum_version")
    /\ min_version = [ok |-> TRUE, major |-> <<"0">>, minor |-> <<"1", "5">>,
                      patch |-> <<"3">>, pre |-> <<>>, build |-> <<"b", "2">>]
    /\ JobDone(B)
    /\ HasResult(A)
    /\ ~HasResult(B)

\* C15 (as claimed): the schemas are tried newest first: a decoded response
\* has the newest variant under which its body deserializes, so a body that
\* deserializes under both is adopted as V019.
C15_NewestFirst ==
    decoded_response.status = "ok" =>
        decoded_response.variant =
            IF "V019" \in raw_payload.decodes_as THEN "V019" ELSE "V018"

\* C16: federated_instances() returns the three lists of a V019 response
\* unchanged; of a V018 response it returns the linked list (same domains,
\* same order) with allowed and blocked empty; it returns None when the
\* response carries no federated_instances object.
C16_PeersAccessor ==
    accessor_result.called =>
        LET v == accessor_result.value
        IN  /\ ~raw_payload.some => ~v.some
            /\ (raw_payload.some /\ decoded_response.variant = "V019") =>
                  /\ v.some
                  /\ v.linked = raw_payload.linked
                  /\ v.allowed = raw_payload.allowed
                  /\ v.blocked = raw_payload.blocked
            /\ (raw_payload.some /\ decoded_response.variant = "V018") =>
                  /\ v.some
                  /\ Len(v.linked) = Len(raw_payload.linked)
                  /\ \A i \in 1..Len(v.linked) :
                        v.linked[i].domain = raw_payload.linked[i].domain
                  /\ v.allowed = <<>>
                  /\ v.blocked = <<>>

\* C16 witness: the accessor was called on a V018 response that lists two
\* different linked instances and an allowed one.
C16_Witness ==
    /\ accessor_result.called
    /\ decoded_response.variant = "V018"
    /\ Len(raw_payload.linked) = 2
    /\ raw_payload.linked[1].domain # raw_payload.linked[2].domain
    /\ raw_payload.allowed # <<>>
    /\ accessor_result.value.allowed = <<>>

\* C17: when the VERSION file cannot be fetched or does not parse,
\* start_crawl ends with the error and nothing of the crawl has happened: no
\* background task is spawned, no seed is sent, no server is fetched.
C17_StartupFatal ==
    (version_file = "err" \/ ~Published.ok) =>
        /\ orch \in {"start", "error"}
        /\ \A w \in Workers : workers[w].pc = "unspawned"
        /\ seed_idx = 1
        /\ queue = <<>>
        /\ crawled_instances = {}
        /\ \A d \in Domains : requests[d] = 0
        /\ Emitted = <<>>
        /\ crawl_results = <<>>

\* C17 witness: start_crawl, called with a seed and two tasks to spawn, has
\* returned the error of a VERSION file that does not parse.
C17_Witness ==
    /\ orch = "error"
    /\ version_file = "unknown"
    /\ start_instances # <<>>
    /\ jobs_count = 2

\* The step in which the job of task w ends in an error.
JobFails(w) ==
    /\ workers[w].pc \in {"fetch", "join", "try_join", "federated"}
    /\ workers'[w].pc \notin {"fetch", "join", "try_join", "page", "paging",
                               "federated", "expand", "emit"}

\* C18: the error of a job stays in its task.  The step in which a job fails
\* (crawl returns Err) leaves the task idle, ready to pull the next job, and
\* changes neither the other tasks, nor the queue, nor the results, nor
\* start_crawl; no task goes under with the error of a job, a task returns
\* only when start_crawl is over; and what start_crawl returns is the
\* results of all the jobs that sent one.
C18_ErrorsStayInWorker ==
    /\ [][\A w \in Workers : JobFails(w) =>
             /\ workers'[w] = Idle("idle")
             /\ \A v \in Workers \ {w} : workers'[v] = workers[v]
             /\ queue' = queue
             /\ result_chan' = result_chan
             /\ results' = results
             /\ crawled_instances' = crawled_instances
             /\ orch' = orch]_vars
    /\ [](\A w \in Workers :
             /\ workers[w].pc # "panicked"
             /\ (workers[w].pc = "exited" => StartCrawlOver))
    /\ [](orch = "returned" =>
             /\ result_chan = <<>>
             /\ Len(crawl_results) = Len(Emitted)
             /\ \A i \in 1..Len(Emitted) :
                   \E j \in 1..Len(crawl_results) :
                       crawl_results[j].domain = Emitted[i].domain)

\* C18 witness: the one task there is ran the job of a.example, then the
\* job of b.example, which failed, then that of c.example; the results of
\* a.example and c.example are returned.
C18_Witness ==
    /\ net = WideNet
    /\ jobs_count = 1
    /\ orch = "returned"
    /\ requests[B] = 1
    /\ ~HasResult(B)
    /\ \E i, j \in 1..Len(crawl_results) :
          crawl_results[i].domain = A /\ crawl_results[j].domain = C

\* The results emitted for domain d.
ResultsOf(d) == SelectSeq(Emitted, LAMBDA c : c.domain = d)

\* Whatever the server at d answers passes the identity checks and the
\* version gate of the run.
PassesChecks(d) ==
    \A r \in net[d] :
        /\ IdentityError(d, r) = ""
        /\ VersionError(r.site_info.version, min_version) = ""

\* C19 (as claimed): a failed community listing or geo lookup does not fail
\* the job, whether or not the GeoIP database can be loaded.  On
\* the network where the listing of a.example fails and the geo lookup of
\* b.example fails, and both servers pass every check, a run that returned
\* emitted exactly one result for
\* a.example, with no communities and its peer list intact, sent its peer
\* b.example as a job when the distance allows, and emitted exactly one
\* result for b.example, without a geo field.
C19_EnrichmentOptional ==
    (/\ net = EnrichmentNet
     /\ orch = "returned"
     /\ PassesChecks(A)
     /\ PassesChecks(B)) =>
        /\ Len(ResultsOf(A)) = 1
        /\ ResultsOf(A)[1].communities = <<>>
        /\ ResultsOf(A)[1].linked_instances = <<B>>
        /\ max_distance >= 1 =>
              /\ requests[B] = 1
              /\ Len(ResultsOf(B)) = 1
              /\ ResultsOf(B)[1].geo_ip = "none"
              /\ ResultsOf(B)[1].communities # <<>>
        /\ max_distance = 0 => requests[B] = 0 /\ ResultsOf(B) = <<>>

\* The sub-requests of a job for d of which every answer of the server fails.
NodeOrSiteFails(d) ==
    \A r \in net[d] : r.node_info.status # "ok" \/ r.site_info.status # "ok"

PeersRequestFails(d) == \A r \in net[d] : r.federated.status # "ok"

\* C20 as stated: no result is emitted for a server of which the nodeinfo,
\* the site info or the federated_instances request fails.
C20_AllSubRequests ==
    \A d \in Domains :
        (NodeOrSiteFails(d) \/ PeersRequestFails(d)) => ~HasResult(d)

\* C20: a job goes on only when its nodeinfo and site info requests both
\* completed and decoded, and no result is emitted for a server where one of
\* them fails; a failed federated_instances request does not fail the job,
\* whose result has empty peer lists, and which sends no child.
C20_NodeAndSiteRequired ==
    /\ \A d \in Domains : NodeOrSiteFails(d) => ~HasResult(d)
    /\ \A d \in Domains : PeersRequestFails(d) =>
          \A i \in 1..Len(Emitted) : Emitted[i].domain = d =>
              /\ Emitted[i].linked_instances = <<>>
              /\ Emitted[i].allowed_instances = <<>>
              /\ Emitted[i].blocked_instances = <<>>
    /\ (/\ net = PartialNet
        /\ orch = "returned"
        /\ max_distance >= 1
        /\ PassesChecks(A)) =>
          /\ requests[A] = 1 /\ requests[B] = 1 /\ requests[C] = 1
          /\ Len(ResultsOf(A)) = 1
          /\ Len(ResultsOf(B)) = 1
          /\ ResultsOf(C) = <<>>

\* C20 witness: a returned run in which both peers of a.example were
\* requested and only b.example, whose federated_instances request failed,
\* has a result.
C20_Witness ==
    /\ net = PartialNet
    /\ orch = "returned"
    /\ max_distance = 2
    /\ requests[B] = 1 /\ requests[C] = 1
    /\ \E i \in 1..Len(results) :
          results[i].domain = B /\ results[i].linked_instances = <<>>
    /\ Len(results) = 2

\* The jobs a step appended to the queue.
Enqueued == SubSeq(queue', Len(queue) + 1, Len(queue'))

\* C21: the step in which an accepted job at distance d sends its children
\* is taken only when d < max_distance, and appends to the queue a job for p
\* exactly when p is in the linked list, is not excluded, is not in
\* crawled_instances at that moment and matches DOMAIN_REGEX, each at
\* distance d + 1; an accepted job with d >= max_distance appends nothing;
\* a peer known only from allowed or blocked lists is never requested.
C21_ChildrenExactly ==
    /\ [][\A w \in Workers :
            /\ (workers[w].pc = "expand" /\ workers'[w].pc = "emit") =>
                  /\ workers[w].current_distance < max_distance
                  /\ queue' = queue \o Enqueued
                  /\ \A p \in Domains :
                        (\E i \in 1..Len(Enqueued) : Enqueued[i].domain = p) <=>
                            /\ p \in Elements(workers[w].federated_instances.linked)
                            /\ p \notin exclude_domains
                            /\ p \notin crawled_instances
                            /\ DOMAIN_REGEX_is_match(p)
                  /\ \A i \in 1..Len(Enqueued) :
                        Enqueued[i].current_distance =
                            workers[w].current_distance + 1
            /\ (workers[w].pc = "federated" /\ workers'[w].pc = "expand") =>
                  workers[w].current_distance < max_distance
            /\ (workers[w].pc = "federated" /\ workers'[w].pc = "emit") =>
                  /\ workers[w].current_distance >= max_distance
                  /\ queue' = queue]_vars
    /\ [](net = ListsNet => requests[C] = 0)

\* C21 witness: a.example and its linked peer b.example were crawled within
\* the distance, and c.example, which a.example allows and b.example blocks,
\* was not.
C21_Witness ==
    /\ net = ListsNet
    /\ orch = "returned"
    /\ max_distance = 2
    /\ requests[B] = 1
    /\ requests[C] = 0
    /\ \E i, j \in 1..Len(results) :
          /\ results[i].domain = A /\ results[i].allowed_instances = <<C>>
          /\ results[j].domain = B /\ results[j].blocked_instances = <<C>>

\* The results a step sent on the result channel.
Sent ==
    IF Len(result_chan') > Len(result_chan)
    THEN SubSeq(result_chan', Len(result_chan) + 1, Len(result_chan'))
    ELSE <<>>

\* The job background task w holds went through fetch_instance_details and
\* the version gate on some answer of its server, and holds what they gave.
Accepted(w) ==
    /\ requests[workers[w].domain] >= 1
    /\ \E r \in net[workers[w].domain] :
          /\ IdentityError(workers[w].domain, r) = ""
          /\ VersionError(r.site_info.version, min_version) = ""
          /\ workers[w].site_info.version = r.site_info.version

\* C22: a step sends a result only as the last step of a job, exactly one,
\* for the address of that job, and leaves the job queue as it is; a job
\* comes to that step only from the step that sent its children, or straight
\* from the fetch when its distance allows no children; a job at either step
\* has completed its fetch and passed the version gate; and a run that
\* returned has exactly one result for every requested server that passes
\* every check and whose geo lookup returns.
C22_OneResultAfterChildren ==
    /\ [][Sent # <<>> =>
            /\ Len(Sent) = 1
            /\ result_chan' = result_chan \o Sent
            /\ queue' = queue
            /\ \E w \in Workers :
                  /\ workers[w].pc = "emit"
                  /\ workers'[w].pc = "idle"
                  /\ Sent[1].domain = workers[w].domain
                  /\ Sent[1].site_info = workers[w].site_info]_vars
    /\ [][\A w \in Workers :
            (workers[w].pc # "emit" /\ workers'[w].pc = "emit") =>
                \/ workers[w].pc = "expand"
                \/ /\ workers[w].pc = "federated"
                   /\ workers[w].current_distance >= max_distance]_vars
    /\ [](\A w \in Workers : workers[w].pc \in {"expand", "emit"} => Accepted(w))
    /\ [](orch = "returned" =>
             \A d \in Domains :
                 (requests[d] >= 1 /\ PassesChecks(d) /\ LookupReturns(d)) =>
                     Len(ResultsOf(d)) = 1)

\* C22 witness: the result of a.example is out while the job of its peer
\* b.example, sent before it, is still in the queue.
C22_Witness ==
    /\ net = RingNet
    /\ start_instances = <<A>>
    /\ ResultsOf(A) # <<>>
    /\ ResultsOf(A)[1].site_info.version = "0.16.3"
    /\ queue = <<[domain |-> B, current_distance |-> 1]>>
    /\ requests[B] = 0

\* C23: the crawled_instances mutex is held only by a job that is claiming
\* its domain or sending its children, never by one whose requests or lookup
\* are in flight, and the step that lets it go is always enabled for its
\* holder; the receiver mutex is held only by a task waiting at recv(), which
\* takes a job as soon as the queue has one.  So no state has tasks waiting
\* for a mutex whose holder cannot move.
C23_NoIoUnderLock ==
    /\ crawled_lock \in {0} \cup Workers
    /\ rcv_lock \in {0} \cup Workers
    /\ \A w \in Workers :
          /\ workers[w].pc \in {"fetch", "join", "try_join", "page", "paging",
                                "federated", "emit"} => crawled_lock # w
          /\ crawled_lock = w =>
                /\ workers[w].pc \in {"claim", "expand"}
                /\ ENABLED (Claim(w) \/ Expand(w))
          /\ rcv_lock = w =>
                /\ workers[w].pc = "idle"
                /\ queue # <<>> => ENABLED Recv(w)
                /\ (queue = <<>> /\ job_senders = 0) => ENABLED WorkerExit(w)
          /\ (workers[w].pc \in {"claim", "expand"} /\ crawled_lock = 0) =>
                ENABLED LockCrawled(w)
          /\ (workers[w].pc = "idle" /\ rcv_lock = 0) => ENABLED LockReceiver(w)

\* C23 witness: one job holds the mutex to send its children while another
\* waits for it to claim its domain.
C23_Witness ==
    \E w, v \in Workers :
        /\ w # v
        /\ crawled_lock = w
        /\ workers[w].pc = "expand"
        /\ workers[v].pc = "claim"

\* C24: crawled_instances only grows; a domain whose server was sent the
\* requests of a job is in it from then on, whether or not the job failed,
\* and no server is sent the requests of a second job.
C24_VisitedOnlyGrows ==
    /\ [][crawled_instances \subseteq crawled_instances']_vars
    /\ [][\A d \in Domains :
            requests'[d] > requests[d] =>
                /\ requests[d] = 0
                /\ d \in crawled_instances
                /\ d \in crawled_instances']_vars
    /\ [](\A d \in Domains :
             (requests[d] >= 1 /\ ~HasResult(d)) => d \in crawled_instances)

\* C24 witness: c.example, listed by a.example and by b.example, has
\* failed in the job a.example sent for it, and the job b.example sent for
\* it is waiting in the queue.
C24_Witness ==
    /\ net = WideNet
    /\ start_instances = <<A>>
    /\ exclude_domains = {}
    /\ requests[C] = 1
    /\ ~HasResult(C)
    /\ \A w \in Workers : workers[w].domain # C
    /\ C \in crawled_instances
    /\ queue = <<[domain |-> C, current_distance |-> 2]>>

\* The first page of the listing that is short or fails.
FirstShort ==
    CHOOSE k \in 1..(MaxPages + 1) :
        /\ PageAt(listing, k) < LIMIT
        /\ \A i \in 1..(k - 1) : PageAt(listing, i) >= LIMIT

\* Pages 1..k of the listing, in order.
PagesUpTo(k) == [i \in 1..k |-> [page |-> i, len |-> PageAt(listing, i)]]

\* C25: the loop of fetch_communities ends only at the first page that is
\* short or whose request failed; the community list made of its result is
\* pages 1..k in page order when page k is the first short one, and empty
\* when a request failed, whatever the pages before it held; and it is what
\* the jobs of the crawl compute.
C25_PagesOrNothing ==
    /\ loop.pc \in {"ok", "err"} =>
          /\ ~CommunitiesDiverge(listing)
          /\ loop.page = FirstShort
          /\ (loop.pc = "err") = (PageAt(listing, FirstShort) < 0)
    /\ community_field.set =>
          /\ community_field.value =
                IF PageAt(listing, FirstShort) < 0 THEN <<>>
                ELSE PagesUpTo(FirstShort)
          /\ community_field.value =
                IF fetch_communities(listing).ok
                THEN fetch_communities(listing).communities ELSE <<>>

\* C25 witness: the second page failed after a full first page and the list
\* is empty.
C25_Witness ==
    /\ listing.pages = <<LIMIT, 0 - 1>>
    /\ loop.pc = "err"
    /\ Len(loop.communities) = 1
    /\ community_field = [set |-> TRUE, value |-> <<>>]

\* Background task w holds a job.
HasJob(w) == w \in Holding

\* C26: no background task ever panics on a channel.  While the queue holds
\* a job start_crawl has not returned, so the task that pulls it can upgrade its
\* weak sender; while a task holds a job, start_crawl's sender and the
\* task's own are alive, the job's Arc<CrawlParams> keeps the result channel
\* open and start_crawl is still receiving from it.
C26_ChannelsStayOpen ==
    /\ \A w \in Workers : workers[w].pc # "panicked"
    /\ queue # <<>> =>
          /\ job_senders >= 1
          /\ orch \in {"seeding", "draining"}
          /\ params_refs >= Len(queue)
    /\ \A w \in Workers : HasJob(w) =>
          /\ job_senders >= 2
          /\ params_refs >= 1
          /\ ~results_closed
          /\ orch \in {"seeding", "draining"}

\* C26 witness: start_crawl dropped its CrawlParams and waits for results;
\* the last job alive is about to send its result.
C26_Witness ==
    /\ orch = "draining"
    /\ queue = <<>>
    /\ params_refs = 1
    /\ job_senders = 2
    /\ \E w \in Workers : workers[w].pc = "emit" /\ workers[w].current_distance = 1

\* C27: a background task has returned only when start_crawl is over (neither
\* seeding nor draining), every strong job sender is dropped and the queue is
\* empty; and once
\* start_crawl has returned every background task still running eventually
\* returns (a task that went under in a geo lookup is gone already).
C27_WorkersOutliveTheRun ==
    /\ [](\A w \in Workers :
             workers[w].pc = "exited" =>
                 /\ StartCrawlOver
                 /\ job_senders = 0
                 /\ queue = <<>>)
    /\ (orch = "returned"
          ~> \A w \in Workers : workers[w].pc \in {"exited", "geo_panicked"})

\* C27 witness: start_crawl returned results and both tasks have returned.
C27_Witness ==
    /\ orch = "returned"
    /\ jobs_count = 2
    /\ crawl_results # <<>>
    /\ \A w \in Workers : workers[w].pc = "exited"

\* C28: with no start instance, whatever the number of background tasks, no
\* job is ever queued and no request sent; the result channel is closed as
\* soon as start_crawl has dropped its CrawlParams; and once the minimum
\* version is there start_crawl eventually returns, with no result.
C28_EmptySeedsTerminate ==
    /\ [](start_instances = <<>> =>
             /\ queue = <<>>
             /\ crawled_instances = {}
             /\ \A d \in Domains : requests[d] = 0
             /\ \A w \in Workers : ~HasJob(w)
             /\ orch = "draining" => (results_closed /\ params_refs = 0)
             /\ orch = "returned" => crawl_results = <<>>)
    /\ ((start_instances = <<>> /\ orch = "seeding")
           ~> (orch = "returned" /\ crawl_results = <<>>))

\* C28 witness: a run without start instances returned; its two background
\* tasks have returned as well.
C28_Witness ==
    /\ start_instances = <<>>
    /\ jobs_count = 2
    /\ orch = "returned"
    /\ crawl_results = <<>>
    /\ results_closed
    /\ \A w \in Workers : workers[w].pc = "exited"

\* C29: for every max_distance of a u8 and every distance a job can have,
\* the addition that makes the child's distance is reached only below the
\* maximum, never overflows, and gives the parent's distance plus one, which
\* is larger than the parent's and within the maximum; at the maximum no
\* child is made.
C29_DistanceNeverWraps ==
    /\ hop.child.state # "panicked"
    /\ hop.child.state = "made" =>
          /\ hop.current_distance < hop.max_distance
          /\ hop.max_distance <= U8Max
          /\ hop.child.distance = hop.current_distance + 1
          /\ hop.child.distance > hop.current_distance
          /\ hop.child.distance <= hop.max_distance
    /\ hop.child.state = "skipped" => hop.current_distance = hop.max_distance

\* C29 witness: with the largest max_distance, the child of a job one hop
\* short of it is at the largest distance.
C29_Witness ==
    /\ hop.max_distance = U8Max
    /\ hop.current_distance = U8Max - 1
    /\ hop.child = [state |-> "made", distance |-> U8Max]

=============================================================================
